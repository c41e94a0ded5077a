----------------------------- MODULE ReserveProofs -----------------------------
(***************************************************************************)
(* What the reserves promise.  The reserve-cover policy, for every set of  *)
(* games: its assertions hold, owed jobs stay coverable and guarantees are *)
(* honoured.  ReserveEscrow, for every terms: the ledger is explained by   *)
(* its history, recovery stops only for a cause, and what the owner can    *)
(* still have to pay stays within the hard cap.  The planners that look    *)
(* ahead, for every set of games and caps: what is certified is kept, the  *)
(* auditor agrees with the solver, a reserve cover is worth its jobs,      *)
(* matchings are maximum, and nobody completes more than is possible.      *)
(***************************************************************************)
EXTENDS ReserveEscrow, ReserveCover, ExactRecovery, SetSums, FunctionTheorems

-------------------------------------------------------------------------------
(* Smallest, largest, and the n-th of some positions                       *)

LEMMA MinOfTwo ==
  ASSUME NEW a \in Int, NEW b \in Int, NEW S, S = {a, b}
  PROVE  Min(S) \in {a, b} /\ Min(S) <= a /\ Min(S) <= b
<1>1. \E x \in S : \A y \in S : x <= y
  OBVIOUS
<1> QED  BY <1>1 DEF Min

LEMMA MaxOfTwo ==
  ASSUME NEW a \in Int, NEW b \in Int, NEW S, S = {a, b}
  PROVE  Max(S) \in {a, b} /\ Max(S) >= a /\ Max(S) >= b
<1>1. \E x \in S : \A y \in S : x >= y
  OBVIOUS
<1> QED  BY <1>1 DEF Max

\* Some positions hold an n-th for each n up to their number.
LEMMA NthAmong ==
  ASSUME NEW P \in SUBSET Nat, IsFiniteSet(P), NEW n \in 1..Cardinality(P)
  PROVE  Nth(P, n) \in P
<1> DEFINE Below(C, k) == {h \in C : h < k}
           RankedAt(C) == \A r \in 1..Cardinality(C) :
                          \E k \in C : Cardinality(Below(C, k)) = r - 1
           Good == {C \in SUBSET P : RankedAt(C)}
<1>1. \A C \in SUBSET P : IsFiniteSet(C) /\ Cardinality(C) \in Nat
  BY FS_Subset, FS_CardinalityType
<1>2. {} \in Good
  <2>1. Cardinality({}) = 0
    BY FS_EmptySet
  <2> QED  BY <2>1
<1>3. ASSUME NEW C \in SUBSET P, C # {}, \A x \in C : C \ {x} \in Good PROVE C \in Good
  <2>1. PICK m \in C : \A h \in C : ~(h < m)
    BY <1>3, LeastNatural
  <2>2. Cardinality(C \ {m}) = Cardinality(C) - 1 /\ RankedAt(C \ {m})
    BY <1>1, <1>3, <2>1, FS_RemoveElement
  <2>3. ASSUME NEW r \in 1..Cardinality(C)
        PROVE  \E k \in C : Cardinality(Below(C, k)) = r - 1
    <3>1. CASE r = 1
      <4>1. Below(C, m) = {} /\ Cardinality({}) = 0
        BY <2>1, FS_EmptySet
      <4> QED  BY <2>1, <3>1, <4>1
    <3>2. CASE r # 1
      <4>1. r - 1 \in 1..Cardinality(C \ {m})
        BY <1>1, <2>2, <3>2
      <4>2. PICK k \in C \ {m} : Cardinality(Below(C \ {m}, k)) = (r - 1) - 1
        BY <2>2, <4>1
      <4>3. m < k
        BY <2>1, <4>2
      <4>4. Below(C, k) = Below(C \ {m}, k) \cup {m} /\ m \notin Below(C \ {m}, k)
        BY <2>1, <4>3
      <4>5. IsFiniteSet(Below(C \ {m}, k))
        BY <1>1, FS_Subset
      <4>6. Cardinality(Below(C, k)) = Cardinality(Below(C \ {m}, k)) + 1
        BY <4>4, <4>5, FS_AddElement
      <4> HIDE DEF Below
      <4> QED  BY <4>2, <4>6
    <3> QED  BY <3>1, <3>2
  <2> QED  BY <2>3
<1>4. P \in Good
  <2> HIDE DEF Good
  <2> QED  BY <1>2, <1>3, AllSubsets
<1>5. \E k \in P : Cardinality(Below(P, k)) = n - 1
  BY <1>4
<1> QED  BY <1>5 DEF Nth

FreeBatch(members, O, roster, primary, activated, unavailable) ==
  /\ members \in Seq(O)
  /\ \A v \in ToSet(members) : /\ v \in ToSet(roster) /\ v \notin primary
                               /\ v \notin activated /\ v \notin unavailable

\* A batch is made of free identities of the locked order.
LEMMA BatchIsFree ==
  ASSUME NEW O, NEW roster \in Seq(O), NEW primary, NEW batch \in Nat,
         NEW activated, NEW unavailable, NEW members,
         members = NextReserveBatch(roster, primary, batch, activated, unavailable)
  PROVE  FreeBatch(members, O, roster, primary, activated, unavailable)
<1> DEFINE free == {k \in DOMAIN roster :
                      roster[k] \notin primary \cup activated \cup unavailable}
           bounds == {batch, Cardinality(free)}
           size == Min(bounds)
<1>1. free \in SUBSET Nat /\ IsFiniteSet(free) /\ Cardinality(free) \in Nat
  <2>1. IsFiniteSet(DOMAIN roster) /\ DOMAIN roster \subseteq Nat
    BY FS_Interval
  <2> QED  BY <2>1, FS_Subset, FS_CardinalityType
<1>0. members = [n \in 1..size |-> roster[Nth(free, n)]]
  BY DEF NextReserveBatch
<1>2. size \in Nat /\ size <= Cardinality(free)
  <2> DEFINE most == Cardinality(free)
  <2>1. bounds = {batch, most} /\ batch \in Int /\ most \in Int /\ most \in Nat
    BY <1>1
  <2> HIDE DEF free, bounds, most
  <2>2. Min(bounds) \in {batch, most} /\ Min(bounds) <= most
    BY <2>1, MinOfTwo
  <2> QED  BY <2>1, <2>2 DEF most
<1>3. ASSUME NEW n \in 1..size PROVE Nth(free, n) \in free
  <2>1. n \in 1..Cardinality(free)
    BY <1>1, <1>2
  <2> HIDE DEF free
  <2> QED  BY <1>1, <2>1, NthAmong
<1> HIDE DEF size
<1>4. \A n \in 1..size : /\ members[n] \in ToSet(roster) /\ members[n] \in O
                         /\ members[n] \notin primary \cup activated \cup unavailable
  <2> SUFFICES ASSUME NEW n \in 1..size
               PROVE  /\ members[n] \in ToSet(roster) /\ members[n] \in O
                      /\ members[n] \notin primary \cup activated \cup unavailable
    OBVIOUS
  <2>1. members[n] = roster[Nth(free, n)] /\ Nth(free, n) \in free
    BY <1>0, <1>3
  <2>2. PICK k \in DOMAIN roster :
          k = Nth(free, n) /\ roster[k] \notin primary \cup activated \cup unavailable
    BY <2>1
  <2> HIDE DEF free
  <2> QED  BY <2>1, <2>2 DEF ToSet
<1>5. members \in Seq(O) /\ DOMAIN members = 1..size
  BY <1>0, <1>2, <1>4
<1>6. \A v \in ToSet(members) : /\ v \in ToSet(roster) /\ v \notin primary
                                 /\ v \notin activated /\ v \notin unavailable
  BY <1>4, <1>5 DEF ToSet
<1> QED  BY <1>5, <1>6 DEF FreeBatch

-------------------------------------------------------------------------------
(* The inductive invariant                                                 *)

Roles == {"primary", "reserve"}
Ledgers ==
  [gross: Nat, legacy: Nat, expired: Nat, irreversible: Nat, paid: Nat, feeEscrow: Nat,
   retainerEscrow: Nat, reclassified: Nat, peak: Nat, expenditure: Nat,
   issuedIds: SUBSET Offered, settledIds: SUBSET Offered, expiredIds: SUBSET Offered,
   paidIds: SUBSET Offered]
Waves == [job: TermJobs, index: Nat, role: Roles, members: Seq(Offered)]

TermsOK == setup \in Setups /\ order \in Seq(Offered)

StateOK ==
  /\ job \in Nat /\ (stage # "done" => job \in TermJobs)
  /\ stage \in Stages
  /\ wave \in [role: Roles, members: Seq(Offered)]
  /\ ledger \in Ledgers /\ committed \in Int
  /\ waves \in Seq(Waves)
  /\ status \in [TermJobs -> [Offered -> Statuses]]

LEMMA LedgerNumbers ==
  ASSUME StateOK
  PROVE  /\ ledger \in Ledgers /\ committed \in Int /\ CurrentExposure(ledger) \in Nat
         /\ ledger.legacy \in Nat /\ ledger.expired \in Nat /\ ledger.reclassified \in Nat
<1>1. ledger \in Ledgers /\ committed \in Int
  BY DEF StateOK
<1>2. /\ ledger.irreversible \in Nat /\ ledger.paid \in Nat /\ ledger.feeEscrow \in Nat
      /\ ledger.retainerEscrow \in Nat /\ ledger.legacy \in Nat /\ ledger.expired \in Nat
      /\ ledger.reclassified \in Nat
  BY <1>1 DEF Ledgers
<1> QED  BY <1>1, <1>2 DEF CurrentExposure

\* The waves are those of the jobs so far; before its first, a job has none.
WavesSoFar ==
  \A k \in DOMAIN waves : waves[k].job <= job /\ (stage = "lock" => waves[k].job < job)

\* What a wave still to be issued is: a primary wave the job's first, a reserve
\* wave made of free reserves that declared no conflict.
WaveReady ==
  stage = "issue" =>
    /\ Members # {} /\ ledger.settledIds = ledger.issuedIds
    /\ wave.role = "primary" => Members = Primary /\ ledger.issuedIds = {}
    /\ wave.role = "reserve" =>
         /\ Members \subseteq ToSet(order) \ (Primary \cup Activated(job))
         /\ \A v \in Members : job \notin Offers[v].conflicts

\* Only the wave issued last is unsettled, and only while it is waited for.
WaveOutstanding ==
  /\ stage = "settle" => ledger.issuedIds \ ledger.settledIds = Members
  /\ stage \in {"reconstitute", "decide", "close"} => ledger.settledIds = ledger.issuedIds

\* What the tail-aware policy has committed includes the wave at hand.
Commitment ==
  /\ stage = "issue" =>
       committed = ledger.legacy + (IF wave.role = "primary" THEN FullReservation(Members)
                                    ELSE NetReservation(Members))
  /\ stage \in {"settle", "reconstitute", "decide", "close"} => committed = ledger.legacy

\* A budget-aware policy has checked the reserves at hand and those before.
Capped ==
  (InHand /\ TailAware) =>
    /\ ReservesIssued # {} => CurrentExposure(ledger) <= HardCap(job)
    /\ (stage = "issue" /\ wave.role = "reserve") =>
         CurrentExposure(ledger) + NetReservation(Members) <= HardCap(job)

EscrowInv ==
  /\ TermsOK /\ StateOK /\ Validated(ledger)
  /\ WavesSoFar /\ WaveReady /\ WaveOutstanding
  /\ LedgerExplained /\ RaisesForCause /\ Commitment /\ Capped

-------------------------------------------------------------------------------
(* Amounts                                                                 *)

LEMMA Terms ==
  ASSUME TermsOK
  PROVE  /\ IsFiniteSet(Offered) /\ \A v \in Offered : FeeOf[v] \in Nat
         /\ setup.retainer \in Nat /\ UnitCost \in Nat /\ setup.multiplier \in Nat
         /\ setup.batch \in Nat
         /\ setup.policy \in Policies /\ setup.outcomes \subseteq Statuses \ {"none"}
         /\ setup.committees \in Seq(Seq(Offered) \ {<<>>}) \ {<<>>}
<1>1. setup \in Setups
  BY DEF TermsOK
<1>2. {setup.retainer, setup.sentinel, setup.adjudication, setup.multiplier, setup.batch}
        \subseteq Nat
  BY <1>1, TermsAssumption
<1>3. /\ setup.retainer \in Nat /\ setup.sentinel \in Nat /\ setup.adjudication \in Nat
      /\ setup.multiplier \in Nat /\ setup.batch \in Nat
  BY <1>2
<1>4. /\ IsFiniteSet(DOMAIN setup.offers)
      /\ \A v \in DOMAIN setup.offers : setup.offers[v].fee \in Nat
      /\ setup.policy \in Policies /\ setup.outcomes \subseteq Statuses \ {"none"}
      /\ setup.committees \in Seq(Seq(DOMAIN setup.offers) \ {<<>>}) \ {<<>>}
  BY <1>1, TermsAssumption
<1>5. UnitCost \in Nat
  BY <1>3 DEF UnitCost
<1> QED  BY <1>3, <1>4, <1>5 DEF Offered, Offers, FeeOf

LEMMA TotalIsSum ==
  ASSUME NEW f, NEW S
  PROVE  Total(f, S) = SumOf(f, S)
BY DEF Total, SumOf

\* What the terms determine stays what it is.
LEMMA Kept ==
  ASSUME UNCHANGED <<setup, order>>
  PROVE  /\ Offered' = Offered /\ Offers' = Offers /\ TermJobs' = TermJobs
         /\ UnitCost' = UnitCost /\ TailAware' = TailAware
         /\ \A S : /\ Fees(S)' = Fees(S) /\ Retainers(S)' = Retainers(S)
                   /\ AllocationExpenditure(S)' = AllocationExpenditure(S)
                   /\ FullReservation(S)' = FullReservation(S)
                   /\ NetReservation(S)' = NetReservation(S)
         /\ \A j : HardCap(j)' = HardCap(j)
<1>1. /\ Offered' = Offered /\ Offers' = Offers /\ TermJobs' = TermJobs
      /\ UnitCost' = UnitCost /\ TailAware' = TailAware
  BY DEF Offered, Offers, TermJobs, UnitCost, TailAware
<1>2. FeeOf' = FeeOf
  BY <1>1 DEF FeeOf
<1>3. CostOf' = CostOf
  BY <1>1, <1>2 DEF CostOf
<1>4. \A S : Fees(S)' = Fees(S) /\ AllocationExpenditure(S)' = AllocationExpenditure(S)
  BY <1>2, <1>3 DEF Fees, AllocationExpenditure
<1>5. \A S : Retainers(S)' = Retainers(S)
  BY DEF Retainers
<1>6. \A S : FullReservation(S)' = FullReservation(S)
  BY <1>1, <1>4 DEF FullReservation
<1>7. \A S : NetReservation(S)' = NetReservation(S)
  BY <1>5, <1>6 DEF NetReservation
<1>8. \A j : HardCap(j)' = HardCap(j)
  BY <1>1, <1>4 DEF HardCap
<1> QED  BY <1>1, <1>4, <1>5, <1>6, <1>7, <1>8

LEMMA ProductsAreNatural ==
  ASSUME NEW a \in Nat, NEW b \in Nat
  PROVE  a * b \in Nat
OBVIOUS

LEMMA Distributes ==
  ASSUME NEW a \in Nat, NEW b \in Nat, NEW c \in Nat
  PROVE  (a + b) * c = a * c + b * c
OBVIOUS

\* Amounts of offered identities are naturals, and an allocation costs what is
\* reserved for it.
LEMMA SetAmounts ==
  ASSUME TermsOK, NEW S \in SUBSET Offered
  PROVE  /\ IsFiniteSet(S) /\ Fees(S) \in Nat /\ Retainers(S) \in Nat
         /\ Cardinality(S) \in Nat /\ Cardinality(S) * UnitCost \in Nat
         /\ AllocationExpenditure(S) = FullReservation(S)
         /\ FullReservation(S) = Fees(S) + Cardinality(S) * UnitCost
         /\ NetReservation(S) = Fees(S) + Cardinality(S) * UnitCost - Retainers(S)
<1>1. IsFiniteSet(S) /\ Cardinality(S) \in Nat
  BY Terms, FS_Subset, FS_CardinalityType
<1>2. Counted(FeeOf, S) /\ UnitCost \in Nat /\ setup.retainer \in Nat
  BY Terms DEF Counted
<1>3. Fees(S) \in Nat
  <2>1. S \cap {} = {} /\ IsFiniteSet({}) /\ Counted(FeeOf, S \cup {})
    BY <1>2, FS_EmptySet DEF Counted
  <2>2. SumOf(FeeOf, S) \in Nat
    BY <1>1, <2>1, SumOfUnion
  <2> QED  BY <2>2, TotalIsSum DEF Fees
<1>4. Retainers(S) \in Nat /\ Cardinality(S) * UnitCost \in Nat
  BY <1>1, <1>2, ProductsAreNatural DEF Retainers
<1>5. AllocationExpenditure(S) = Fees(S) + Cardinality(S) * UnitCost
  <2>1. \A v \in S : CostOf[v] = FeeOf[v] + UnitCost
    BY DEF CostOf
  <2>2. SumOf(CostOf, S) = SumOf(FeeOf, S) + Cardinality(S) * UnitCost
    BY <1>1, <1>2, <2>1, SumOfShifted
  <2> QED  BY <2>2, TotalIsSum DEF Fees, AllocationExpenditure
<1> QED  BY <1>1, <1>3, <1>4, <1>5 DEF FullReservation, NetReservation

\* Amounts of identities apart add up.
LEMMA ApartAmounts ==
  ASSUME TermsOK, NEW A \in SUBSET Offered, NEW B \in SUBSET Offered, A \cap B = {},
         NEW C, C = A \cup B
  PROVE  /\ Fees(C) = Fees(A) + Fees(B)
         /\ Retainers(C) = Retainers(A) + Retainers(B)
         /\ Cardinality(C) * UnitCost = Cardinality(A) * UnitCost + Cardinality(B) * UnitCost
<1>1. /\ IsFiniteSet(A) /\ IsFiniteSet(B)
      /\ Cardinality(A) \in Nat /\ Cardinality(B) \in Nat
  BY SetAmounts
<1>2. Counted(FeeOf, A \cup B) /\ UnitCost \in Nat /\ setup.retainer \in Nat
  BY Terms DEF Counted
<1>3. Fees(C) = Fees(A) + Fees(B)
  <2>1. SumOf(FeeOf, A \cup B) = SumOf(FeeOf, A) + SumOf(FeeOf, B)
    BY <1>1, <1>2, SumOfUnion
  <2> QED  BY <2>1, TotalIsSum DEF Fees
<1>4. Cardinality(C) = Cardinality(A) + Cardinality(B)
  <2>1. Cardinality(A \cap B) = 0
    BY FS_EmptySet
  <2>2. Cardinality(A \cup B) = Cardinality(A) + Cardinality(B) - Cardinality(A \cap B)
    BY <1>1, FS_Union
  <2> QED  BY <1>1, <2>1, <2>2
<1>5. /\ Cardinality(C) * UnitCost = Cardinality(A) * UnitCost + Cardinality(B) * UnitCost
      /\ Cardinality(C) * setup.retainer
           = Cardinality(A) * setup.retainer + Cardinality(B) * setup.retainer
  BY <1>1, <1>2, <1>4, Distributes
<1> QED  BY <1>3, <1>5 DEF Retainers

-------------------------------------------------------------------------------
(* The ledger's operations                                                 *)

\* What issuing a wave moves, from the ledger l to the ledger k.
Moved(l, k, M, fees, costs, conversion) ==
  /\ CurrentExposure(k) = CurrentExposure(l) - conversion + fees + costs
  /\ k.gross = l.gross + fees + costs
  /\ k.legacy = l.legacy + fees + costs - conversion
  /\ k.irreversible = l.irreversible + costs /\ k.feeEscrow = l.feeEscrow + fees
  /\ k.retainerEscrow = l.retainerEscrow - conversion
  /\ k.reclassified = l.reclassified + conversion
  /\ k.paid = l.paid /\ k.expired = l.expired
  /\ k.issuedIds = l.issuedIds \cup M /\ k.settledIds = l.settledIds
  /\ k.expiredIds = l.expiredIds /\ k.paidIds = l.paidIds

\* Issuing a wave of identities never issued, whose retainers are held, is
\* accepted.
LEMMA IssueAccepted ==
  ASSUME NEW l \in Ledgers, Validated(l), l.legacy = CurrentExposure(l) + l.expired,
         NEW M \in SUBSET Offered, M \cap l.issuedIds = {},
         NEW fees \in Nat, NEW costs \in Nat, NEW conversion \in Nat,
         conversion <= l.retainerEscrow, NEW k, k = Issued(l, M, fees, costs, conversion)
  PROVE  /\ k \in Ledgers /\ Validated(k) /\ ~IssueRaises(l, M, fees, costs, conversion)
         /\ Moved(l, k, M, fees, costs, conversion)
<1> DEFINE exposure == CurrentExposure(l) - conversion + fees + costs
<1>1. /\ l.gross \in Nat /\ l.legacy \in Nat /\ l.expired \in Nat /\ l.irreversible \in Nat
      /\ l.paid \in Nat /\ l.feeEscrow \in Nat /\ l.retainerEscrow \in Nat
      /\ l.reclassified \in Nat /\ l.peak \in Nat /\ l.expenditure \in Nat
      /\ l.issuedIds \subseteq Offered /\ l.settledIds \subseteq Offered
      /\ l.expiredIds \subseteq Offered /\ l.paidIds \subseteq Offered
  BY DEF Ledgers
<1>2. CurrentExposure(l) = l.irreversible + l.paid + l.feeEscrow + l.retainerEscrow
  BY DEF CurrentExposure
<1>3. exposure \in Nat /\ l.legacy + fees + costs - conversion \in Nat
  BY <1>1, <1>2
<1> HIDE DEF exposure
<1>4. Max({l.peak, exposure}) \in Nat /\ Max({l.peak, exposure}) >= exposure
  <2> DEFINE both == {l.peak, exposure}
  <2>1. both = {l.peak, exposure} /\ l.peak \in Int /\ exposure \in Int
    BY <1>1, <1>3
  <2> HIDE DEF both
  <2>2. Max(both) \in {l.peak, exposure} /\ Max(both) >= exposure
    BY <2>1, MaxOfTwo
  <2> QED  BY <1>1, <1>3, <2>2 DEF both
<1> DEFINE top == Max({l.peak, exposure})
<1>5. k = [l EXCEPT !.gross = @ + fees + costs,
                    !.legacy = @ + fees + costs - conversion,
                    !.irreversible = @ + costs,
                    !.feeEscrow = @ + fees,
                    !.retainerEscrow = @ - conversion,
                    !.reclassified = @ + conversion,
                    !.peak = top,
                    !.expenditure = exposure,
                    !.issuedIds = @ \cup M]
  BY DEF Issued, exposure
<1> HIDE DEF top
<1>6. /\ k.gross = l.gross + fees + costs
      /\ k.legacy = l.legacy + fees + costs - conversion
      /\ k.irreversible = l.irreversible + costs /\ k.feeEscrow = l.feeEscrow + fees
      /\ k.retainerEscrow = l.retainerEscrow - conversion
      /\ k.reclassified = l.reclassified + conversion
      /\ k.paid = l.paid /\ k.expired = l.expired
      /\ k.peak = top /\ k.expenditure = exposure
      /\ k.issuedIds = l.issuedIds \cup M /\ k.settledIds = l.settledIds
      /\ k.expiredIds = l.expiredIds /\ k.paidIds = l.paidIds
  BY <1>5 DEF Ledgers
<1>7. top \in Nat /\ top >= exposure
  BY <1>4 DEF top
<1>8. k \in Ledgers
  <2>1. /\ k.gross \in Nat /\ k.legacy \in Nat /\ k.expired \in Nat /\ k.irreversible \in Nat
        /\ k.paid \in Nat /\ k.feeEscrow \in Nat /\ k.retainerEscrow \in Nat
        /\ k.reclassified \in Nat /\ k.peak \in Nat /\ k.expenditure \in Nat
        /\ k.issuedIds \subseteq Offered /\ k.settledIds \subseteq Offered
        /\ k.expiredIds \subseteq Offered /\ k.paidIds \subseteq Offered
    BY <1>1, <1>3, <1>6, <1>7
  <2> QED  BY <1>5, <2>1 DEF Ledgers
<1>9. CurrentExposure(k) = exposure
  <2>1. CurrentExposure(k) = k.irreversible + k.paid + k.feeEscrow + k.retainerEscrow
    BY DEF CurrentExposure
  <2> QED  BY <1>1, <1>2, <1>6, <2>1 DEF exposure
<1>10. Validated(k)
  <2>1. \A amount \in Amounts(k) : amount >= 0
    <3>1. Amounts(k) \subseteq Nat
      BY <1>8 DEF Amounts, Ledgers
    <3> QED  BY <3>1
  <2>2. /\ k.settledIds \subseteq k.issuedIds
        /\ k.paidIds \cap k.expiredIds = {} /\ k.paidIds \cup k.expiredIds = k.settledIds
    BY <1>6 DEF Validated
  <2> QED  BY <1>6, <1>7, <1>9, <2>1, <2>2 DEF Validated
<1>11. ~IssueRaises(l, M, fees, costs, conversion)
  <2>1. ~(conversion > l.retainerEscrow)
    BY <1>1
  <2> QED  BY <1>10, <2>1 DEF IssueRaises
<1> QED  BY <1>6, <1>8, <1>9, <1>10, <1>11 DEF exposure, Moved

\* What settling the assignments of P and X pays and lets expire.
Released(l, k, P, X, paidFees, expiredFees) ==
  /\ CurrentExposure(k) = CurrentExposure(l) - expiredFees
  /\ k.gross = l.gross /\ k.legacy = l.legacy /\ k.irreversible = l.irreversible
  /\ k.feeEscrow = l.feeEscrow - (paidFees + expiredFees)
  /\ k.retainerEscrow = l.retainerEscrow /\ k.reclassified = l.reclassified
  /\ k.paid = l.paid + paidFees /\ k.expired = l.expired + expiredFees
  /\ k.issuedIds = l.issuedIds /\ k.settledIds = l.settledIds \cup P \cup X
  /\ k.expiredIds = l.expiredIds \cup X /\ k.paidIds = l.paidIds \cup P

\* Settling identities issued and unsettled, whose fees are held, is accepted.
LEMMA SettleAccepted ==
  ASSUME NEW l \in Ledgers, Validated(l), NEW P \in SUBSET Offered, NEW X \in SUBSET Offered,
         P \cap X = {}, P \cup X \subseteq l.issuedIds, (P \cup X) \cap l.settledIds = {},
         NEW paidFees \in Nat, NEW expiredFees \in Nat, paidFees + expiredFees <= l.feeEscrow,
         NEW k, k = Settled(l, P, X, paidFees, expiredFees)
  PROVE  /\ k \in Ledgers /\ Validated(k) /\ ~SettleRaises(l, P, X, paidFees, expiredFees)
         /\ Released(l, k, P, X, paidFees, expiredFees)
<1>1. /\ l.gross \in Nat /\ l.legacy \in Nat /\ l.expired \in Nat /\ l.irreversible \in Nat
      /\ l.paid \in Nat /\ l.feeEscrow \in Nat /\ l.retainerEscrow \in Nat
      /\ l.reclassified \in Nat /\ l.peak \in Nat /\ l.expenditure \in Nat
      /\ l.issuedIds \subseteq Offered /\ l.settledIds \subseteq Offered
      /\ l.expiredIds \subseteq Offered /\ l.paidIds \subseteq Offered
  BY DEF Ledgers
<1>2. CurrentExposure(l) = l.irreversible + l.paid + l.feeEscrow + l.retainerEscrow
  BY DEF CurrentExposure
<1> DEFINE left == CurrentExposure(l) - expiredFees
<1>3. left \in Nat /\ l.feeEscrow - (paidFees + expiredFees) \in Nat
  BY <1>1, <1>2
<1> HIDE DEF left
<1>4. k = [l EXCEPT !.expired = @ + expiredFees,
                    !.paid = @ + paidFees,
                    !.feeEscrow = @ - (paidFees + expiredFees),
                    !.expenditure = left,
                    !.settledIds = @ \cup P \cup X,
                    !.expiredIds = @ \cup X,
                    !.paidIds = @ \cup P]
  BY DEF Settled, left
<1>5. /\ k.gross = l.gross /\ k.legacy = l.legacy /\ k.irreversible = l.irreversible
      /\ k.feeEscrow = l.feeEscrow - (paidFees + expiredFees)
      /\ k.retainerEscrow = l.retainerEscrow /\ k.reclassified = l.reclassified
      /\ k.paid = l.paid + paidFees /\ k.expired = l.expired + expiredFees
      /\ k.peak = l.peak /\ k.expenditure = left
      /\ k.issuedIds = l.issuedIds /\ k.settledIds = l.settledIds \cup P \cup X
      /\ k.expiredIds = l.expiredIds \cup X /\ k.paidIds = l.paidIds \cup P
  BY <1>4 DEF Ledgers
<1>6. k \in Ledgers
  <2>1. /\ k.gross \in Nat /\ k.legacy \in Nat /\ k.expired \in Nat /\ k.irreversible \in Nat
        /\ k.paid \in Nat /\ k.feeEscrow \in Nat /\ k.retainerEscrow \in Nat
        /\ k.reclassified \in Nat /\ k.peak \in Nat /\ k.expenditure \in Nat
        /\ k.issuedIds \subseteq Offered /\ k.settledIds \subseteq Offered
        /\ k.expiredIds \subseteq Offered /\ k.paidIds \subseteq Offered
    BY <1>1, <1>3, <1>5
  <2> QED  BY <1>4, <2>1 DEF Ledgers
<1>7. CurrentExposure(k) = left
  <2>1. CurrentExposure(k) = k.irreversible + k.paid + k.feeEscrow + k.retainerEscrow
    BY DEF CurrentExposure
  <2> QED  BY <1>1, <1>2, <1>5, <2>1 DEF left
<1>8. Validated(k)
  <2>1. \A amount \in Amounts(k) : amount >= 0
    <3>1. Amounts(k) \subseteq Nat
      BY <1>6 DEF Amounts, Ledgers
    <3> QED  BY <3>1
  <2>2. /\ k.settledIds \subseteq k.issuedIds
        /\ k.paidIds \cap k.expiredIds = {} /\ k.paidIds \cup k.expiredIds = k.settledIds
    BY <1>5 DEF Validated
  <2>3. l.peak >= CurrentExposure(l) /\ CurrentExposure(l) \in Nat
    BY <1>1, <1>2 DEF Validated
  <2>4. k.peak >= left
    BY <1>1, <1>5, <2>3 DEF left
  <2> QED  BY <1>5, <1>7, <2>1, <2>2, <2>4 DEF Validated
<1>9. ~SettleRaises(l, P, X, paidFees, expiredFees)
  <2>1. ~(paidFees + expiredFees > l.feeEscrow)
    BY <1>1
  <2> QED  BY <1>8, <2>1 DEF SettleRaises
<1> QED  BY <1>5, <1>6, <1>7, <1>8, <1>9 DEF left, Released

-------------------------------------------------------------------------------
(* The steps                                                               *)

\* Who the primary members, the activated and the roster are.
LEMMA IdentityFacts ==
  ASSUME TermsOK, StateOK
  PROVE  /\ \A j : Activated(j) \in SUBSET Offered
         /\ ToSet(order) \in SUBSET Offered /\ Members \in SUBSET Offered
         /\ Primary \in SUBSET Offered /\ ReservesIssued \in SUBSET Offered
         /\ stage # "done" => Primary # {} /\ setup.committees[job] \in Seq(Offered)
                              /\ Primary = ToSet(setup.committees[job])
<1>1. \A j : Activated(j) \in SUBSET Offered
  <2>1. \A w \in ToSet(waves) : w.members \in Seq(Offered)
    <3>1. \A k \in DOMAIN waves : waves[k] \in Waves
      BY DEF StateOK
    <3>2. \A w \in Waves : w.members \in Seq(Offered)
      BY DEF Waves
    <3> QED  BY <3>1, <3>2 DEF ToSet
  <2> QED  BY <2>1 DEF Activated, ToSet
<1>2. ToSet(order) \in SUBSET Offered /\ Members \in SUBSET Offered
  BY DEF TermsOK, StateOK, Members, ToSet
<1>3. /\ Primary \in SUBSET Offered
      /\ stage # "done" => /\ Primary # {} /\ setup.committees[job] \in Seq(Offered)
                           /\ Primary = ToSet(setup.committees[job])
  <2>1. CASE job \in TermJobs
    <3>1. setup.committees[job] \in Seq(Offered) /\ setup.committees[job] # <<>>
      BY <2>1, Terms DEF TermJobs
    <3>2. Primary = ToSet(setup.committees[job])
      BY <2>1 DEF Primary
    <3>3. ToSet(setup.committees[job]) \subseteq Offered
      BY <3>1 DEF ToSet
    <3>4. ToSet(setup.committees[job]) # {}
      <4>1. 1 \in DOMAIN setup.committees[job]
        BY <3>1
      <4> QED  BY <4>1 DEF ToSet
    <3> QED  BY <3>1, <3>2, <3>3, <3>4
  <2>2. CASE job \notin TermJobs
    BY <2>2 DEF Primary, StateOK
  <2> QED  BY <2>1, <2>2
<1> QED  BY <1>1, <1>2, <1>3 DEF ReservesIssued

LEMMA NothingCosts ==
  ASSUME TermsOK
  PROVE  Fees({}) = 0 /\ Retainers({}) = 0 /\ Cardinality({}) * UnitCost = 0
<1>1. Total(FeeOf, {}) = 0
  BY TotalIsSum, SumOfNone
<1>2. \A n \in Nat : 0 * n = 0
  OBVIOUS
<1>3. Cardinality({}) = 0 /\ setup.retainer \in Nat /\ UnitCost \in Nat
  BY Terms, FS_EmptySet
<1> QED  BY <1>1, <1>2, <1>3 DEF Fees, Retainers

LEMMA CapIsNatural ==
  ASSUME TermsOK, StateOK, stage # "done"
  PROVE  HardCap(job) \in Nat
<1>1. /\ ToSet(setup.committees[job]) \in SUBSET Offered
      /\ Len(setup.committees[job]) \in Nat /\ UnitCost \in Nat /\ setup.multiplier \in Nat
  BY IdentityFacts, Terms
<1>2. Fees(ToSet(setup.committees[job])) \in Nat
  BY <1>1, SetAmounts
<1>3. Len(setup.committees[job]) * UnitCost \in Nat
  BY <1>1, ProductsAreNatural
<1>4. Fees(ToSet(setup.committees[job])) + Len(setup.committees[job]) * UnitCost \in Nat
  BY <1>2, <1>3
<1> QED  BY <1>1, <1>4, ProductsAreNatural DEF HardCap

\* A ledger that holds retainers only.
LEMMA NewLedger ==
  ASSUME NEW r \in Nat, NEW l, l = Initialized(r)
  PROVE  /\ l \in Ledgers /\ Validated(l) /\ CurrentExposure(l) = r
         /\ l.issuedIds = {} /\ l.settledIds = {} /\ l.paidIds = {} /\ l.expiredIds = {}
         /\ l.feeEscrow = 0 /\ l.paid = 0 /\ l.expired = 0 /\ l.irreversible = 0
         /\ l.reclassified = 0 /\ l.retainerEscrow = r /\ l.gross = r /\ l.legacy = r
<1>1. /\ l \in Ledgers /\ l.peak = r /\ l.expenditure = r
      /\ l.issuedIds = {} /\ l.settledIds = {} /\ l.paidIds = {} /\ l.expiredIds = {}
      /\ l.feeEscrow = 0 /\ l.paid = 0 /\ l.expired = 0 /\ l.irreversible = 0
      /\ l.reclassified = 0 /\ l.retainerEscrow = r /\ l.gross = r /\ l.legacy = r
  BY DEF Initialized, Ledgers
<1>2. CurrentExposure(l) = r
  BY <1>1 DEF CurrentExposure
<1>3. \A amount \in Amounts(l) : amount >= 0
  <2>1. Amounts(l) \subseteq Nat
    BY <1>1 DEF Amounts, Ledgers
  <2> QED  BY <2>1
<1>4. Validated(l)
  BY <1>1, <1>2, <1>3 DEF Validated
<1> QED  BY <1>1, <1>2, <1>4

LEMMA InitHolds == Init => EscrowInv
<1> SUFFICES ASSUME Init PROVE EscrowInv
  OBVIOUS
<1>1. PICK s \in Setups : ~SetupRefused(s) /\ Begin(s)
  BY DEF Init
<1>2. /\ setup = s /\ order = RosterOf(s)
      /\ job = 1 /\ stage = "lock" /\ wave = [role |-> "primary", members |-> <<>>]
      /\ ledger = Initialized(0) /\ committed = 0
      /\ waves = <<>> /\ status = [j \in TermJobs |-> Unsettled]
  BY <1>1 DEF Begin
<1>3. TermsOK
  <2>1. RosterOf(s) \in Seq(DOMAIN s.offers)
    BY <1>1, TermsAssumption
  <2> QED  BY <1>2, <2>1 DEF TermsOK, Offered, Offers
<1>4. ledger \in Ledgers /\ Validated(ledger)
  BY <1>2, NewLedger
<1>5. StateOK
  <2>1. 1 \in TermJobs
    BY <1>3, Terms DEF TermJobs
  <2>2. wave \in [role: Roles, members: Seq(Offered)]
    BY <1>2 DEF Roles
  <2>3. status \in [TermJobs -> [Offered -> Statuses]]
    BY <1>2 DEF Unsettled, Statuses
  <2>4. waves \in Seq(Waves)
    BY <1>2
  <2> QED  BY <1>2, <1>4, <2>1, <2>2, <2>3, <2>4 DEF StateOK, Stages
<1>6. WavesSoFar
  BY <1>2 DEF WavesSoFar
<1> QED
  BY <1>2, <1>3, <1>4, <1>5, <1>6
  DEF EscrowInv, WaveReady, WaveOutstanding, LedgerExplained, InHand, RaisesForCause,
      Commitment, Capped

\* What an action that keeps the job and its waves keeps.
LEMMA HistoryKept ==
  ASSUME UNCHANGED <<setup, order, job, waves>>
  PROVE  /\ Primary' = Primary /\ ReservesIssued' = ReservesIssued /\ Allocated' = Allocated
         /\ \A j : Activated(j)' = Activated(j)
<1>1. Primary' = Primary
  BY DEF Primary, TermJobs
<1>2. \A j : Activated(j)' = Activated(j)
  BY DEF Activated
<1>3. ReservesIssued' = ReservesIssued
  BY <1>1, <1>2 DEF ReservesIssued
<1>4. Allocated' = Allocated
  BY Kept DEF Allocated
<1> QED  BY <1>1, <1>2, <1>3, <1>4

\* LedgerExplained in the next state, in the amounts of this one.
LEMMA ExplainedNext ==
  ASSUME UNCHANGED <<setup, order, job>>,
         ledger'.issuedIds = Activated(job)', ledger'.paidIds \subseteq Passed(job)',
         ledger'.feeEscrow = Fees(ledger'.issuedIds \ ledger'.settledIds),
         ledger'.paid = Fees(ledger'.paidIds), ledger'.expired = Fees(ledger'.expiredIds),
         ledger'.irreversible = Cardinality(ledger'.issuedIds) * UnitCost,
         ledger'.retainerEscrow = Retainers(ToSet(order) \ (Primary \cup ReservesIssued')),
         ledger'.reclassified = Retainers(ReservesIssued'),
         ledger'.gross = CurrentExposure(ledger') + ledger'.expired + ledger'.reclassified,
         ledger'.legacy = CurrentExposure(ledger') + ledger'.expired,
         ledger'.gross = Retainers(ToSet(order) \ Primary)
                           + Total(Allocated', {k \in DOMAIN waves' : waves'[k].job = job})
  PROVE  LedgerExplained'
<1>1. UnitCost' = UnitCost /\ \A S : Fees(S)' = Fees(S) /\ Retainers(S)' = Retainers(S)
  BY Kept
<1>2. Primary' = Primary
  BY DEF Primary, TermJobs
<1>3. /\ Fees(ledger.issuedIds \ ledger.settledIds)' = Fees(ledger'.issuedIds \ ledger'.settledIds)
      /\ Fees(ledger.paidIds)' = Fees(ledger'.paidIds)
      /\ Fees(ledger.expiredIds)' = Fees(ledger'.expiredIds)
  BY <1>1
<1>4. /\ Retainers(ToSet(order) \ (Primary \cup ReservesIssued))'
           = Retainers(ToSet(order) \ (Primary \cup ReservesIssued'))
      /\ Retainers(ReservesIssued)' = Retainers(ReservesIssued')
      /\ Retainers(ToSet(order) \ Primary)' = Retainers(ToSet(order) \ Primary)
  BY <1>1, <1>2
<1>5. Total(Allocated, {k \in DOMAIN waves : waves[k].job = job})'
        = Total(Allocated', {k \in DOMAIN waves' : waves'[k].job = job})
  OBVIOUS
<1>6. CurrentExposure(ledger)' = CurrentExposure(ledger')
  BY DEF CurrentExposure
<1> QED
  BY <1>1, <1>3, <1>4, <1>5, <1>6 DEF LedgerExplained

LEMMA LockHolds ==
  ASSUME EscrowInv, Lock
  PROVE  EscrowInv'
<1>1. /\ stage = "lock" /\ stage' = "issue"
      /\ ledger' = Initialized(Retainers(ToSet(order) \ Primary))
      /\ committed' = FullReservation(Primary) + Retainers(ToSet(order) \ Primary)
      /\ wave' = [role |-> "primary", members |-> setup.committees[job]]
      /\ UNCHANGED <<setup, order, job, waves, status>>
  BY DEF Lock
<1>2. TermsOK /\ StateOK /\ WavesSoFar
  BY DEF EscrowInv
<1> DEFINE locked == Retainers(ToSet(order) \ Primary)
<1>3. /\ Primary \in SUBSET Offered /\ ToSet(order) \ Primary \in SUBSET Offered
      /\ Primary # {} /\ setup.committees[job] \in Seq(Offered)
      /\ Primary = ToSet(setup.committees[job])
  BY <1>1, <1>2, IdentityFacts
<1>4. locked \in Nat
  BY <1>2, <1>3, SetAmounts
<1> HIDE DEF locked
<1>5. ledger' = Initialized(locked) /\ committed' = FullReservation(Primary) + locked
  BY <1>1 DEF locked
<1>6. /\ ledger' \in Ledgers /\ Validated(ledger') /\ CurrentExposure(ledger') = locked
      /\ ledger'.issuedIds = {} /\ ledger'.settledIds = {} /\ ledger'.paidIds = {}
      /\ ledger'.expiredIds = {}
      /\ ledger'.feeEscrow = 0 /\ ledger'.paid = 0 /\ ledger'.expired = 0
      /\ ledger'.irreversible = 0 /\ ledger'.reclassified = 0
      /\ ledger'.retainerEscrow = locked /\ ledger'.gross = locked
      /\ ledger'.legacy = locked
  BY <1>4, <1>5, NewLedger
<1>7. /\ Offered' = Offered /\ TermJobs' = TermJobs /\ UnitCost' = UnitCost
      /\ Ledgers' = Ledgers /\ Waves' = Waves /\ TermsOK'
  BY <1>1, <1>2, Kept DEF TermsOK, Ledgers, Waves
<1>8. Primary' = Primary /\ Allocated' = Allocated /\ \A j : Activated(j)' = Activated(j)
  BY <1>1, HistoryKept
<1>9. Activated(job) = {} /\ {k \in DOMAIN waves : waves[k].job = job} = {}
  <2>1. \A k \in DOMAIN waves : waves[k].job < job /\ waves[k].job \in Int /\ job \in Int
    <3>1. \A k \in DOMAIN waves : waves[k] \in Waves
      BY <1>2 DEF StateOK
    <3>2. TermJobs \subseteq Nat
      BY <1>2, Terms DEF TermJobs
    <3>3. \A k \in DOMAIN waves : waves[k].job \in Nat
      BY <3>1, <3>2 DEF Waves
    <3>4. job \in Nat /\ \A k \in DOMAIN waves : waves[k].job < job
      BY <1>1, <1>2 DEF WavesSoFar, StateOK
    <3> QED  BY <3>3, <3>4
  <2>2. {k \in DOMAIN waves : waves[k].job = job} = {}
    BY <2>1
  <2> QED  BY <2>2 DEF Activated, ToSet
<1>10. Members' = Primary
  BY <1>1, <1>3 DEF Members
<1>11. StateOK'
  <2>1. FullReservation(Primary) \in Nat
    BY <1>2, <1>3, SetAmounts
  <2>2. wave' \in [role: Roles, members: Seq(Offered)] /\ committed' \in Int
    BY <1>1, <1>3, <1>4, <1>5, <2>1 DEF Roles
  <2> QED  BY <1>1, <1>2, <1>6, <1>7, <2>2 DEF StateOK, Stages
<1>12. Validated(ledger)'
  BY <1>6 DEF Validated, Amounts, CurrentExposure
<1>13. WavesSoFar'
  BY <1>1, <1>2 DEF WavesSoFar
<1>14. WaveReady' /\ WaveOutstanding'
  BY <1>1, <1>3, <1>6, <1>8, <1>10 DEF WaveReady, WaveOutstanding
<1>15. ReservesIssued' = {}
  BY <1>1, <1>8, <1>9 DEF ReservesIssued
<1>16. LedgerExplained'
  <2>1. /\ ledger'.issuedIds = Activated(job)' /\ ledger'.paidIds \subseteq Passed(job)'
    BY <1>1, <1>6, <1>8, <1>9
  <2>2. Fees({}) = 0 /\ Retainers({}) = 0 /\ Cardinality({}) * UnitCost = 0
    BY <1>2, NothingCosts
  <2>3. /\ ledger'.feeEscrow = Fees(ledger'.issuedIds \ ledger'.settledIds)
        /\ ledger'.paid = Fees(ledger'.paidIds) /\ ledger'.expired = Fees(ledger'.expiredIds)
        /\ ledger'.irreversible = Cardinality(ledger'.issuedIds) * UnitCost
        /\ ledger'.reclassified = Retainers(ReservesIssued')
    BY <1>6, <1>15, <2>2
  <2>4. ToSet(order) \ (Primary \cup ReservesIssued') = ToSet(order) \ Primary
    BY <1>15
  <2>5. ledger'.retainerEscrow = Retainers(ToSet(order) \ (Primary \cup ReservesIssued'))
    BY <1>6, <2>4 DEF locked
  <2>6. /\ ledger'.gross = CurrentExposure(ledger') + ledger'.expired + ledger'.reclassified
        /\ ledger'.legacy = CurrentExposure(ledger') + ledger'.expired
    BY <1>4, <1>6
  <2>7. ledger'.gross = Retainers(ToSet(order) \ Primary)
                          + Total(Allocated', {k \in DOMAIN waves' : waves'[k].job = job})
    <3>1. {k \in DOMAIN waves' : waves'[k].job = job} = {}
      BY <1>1, <1>9
    <3>2. Total(Allocated', {}) = 0
      BY TotalIsSum, SumOfNone
    <3>3. ledger'.gross = locked + 0
      BY <1>4, <1>6
    <3> QED  BY <3>1, <3>2, <3>3 DEF locked
  <2> QED
    BY <1>1, <2>1, <2>3, <2>5, <2>6, <2>7, ExplainedNext
<1>17. Commitment'
  <2>1. FullReservation(Members)' = FullReservation(Primary)
    BY <1>1, <1>10, Kept
  <2>2. FullReservation(Primary) \in Nat
    BY <1>2, <1>3, SetAmounts
  <2>3. wave'.role = "primary"
    BY <1>1
  <2>4. committed' = ledger'.legacy + FullReservation(Members)'
    BY <1>4, <1>5, <1>6, <2>1, <2>2
  <2> QED  BY <1>1, <2>3, <2>4 DEF Commitment
<1>18. Capped'
  <2>1. wave'.role # "reserve"
    BY <1>1
  <2> QED  BY <1>15, <2>1 DEF Capped
<1>19. RaisesForCause'
  BY <1>1 DEF RaisesForCause
<1> QED
  BY <1>7, <1>11, <1>12, <1>13, <1>14, <1>16, <1>17, <1>18, <1>19 DEF EscrowInv

\* A state of the escrow with the amounts it had is explained as it was.
LEMMA ExplainedKept ==
  ASSUME EscrowInv, UNCHANGED <<setup, order, job, ledger, waves, status>>,
         InHand, stage' # "lock"
  PROVE  LedgerExplained' /\ Validated(ledger)' /\ WavesSoFar'
<1>1. LedgerExplained /\ Validated(ledger) /\ WavesSoFar
  BY DEF EscrowInv
<1>2. /\ ReservesIssued' = ReservesIssued /\ Allocated' = Allocated
      /\ Activated(job)' = Activated(job)
  BY HistoryKept
<1>3. Passed(job)' = Passed(job)
  BY Kept DEF Passed
<1>4. LedgerExplained'
  BY <1>1, <1>2, <1>3, ExplainedNext DEF LedgerExplained
<1>5. Validated(ledger)'
  BY <1>1 DEF Validated, Amounts, CurrentExposure
<1>6. WavesSoFar'
  BY <1>1 DEF WavesSoFar, InHand
<1> QED  BY <1>4, <1>5, <1>6

\* The wave at hand holds the retainers issuing it converts.
LEMMA WaveIsCovered ==
  ASSUME EscrowInv, stage = "issue"
  PROVE  /\ Members \in SUBSET Offered /\ Members \cap ledger.issuedIds = {}
         /\ Conversion \in Nat /\ Conversion <= ledger.retainerEscrow
         /\ ledger.feeEscrow = 0
         /\ LET reserves == (Activated(job) \cup Members) \ Primary
            IN  /\ ledger.retainerEscrow - Conversion
                     = Retainers(ToSet(order) \ (Primary \cup reserves))
                /\ ledger.reclassified + Conversion = Retainers(reserves)
                /\ wave.role = "primary" => reserves = {}
<1>1. TermsOK /\ StateOK /\ WaveReady /\ LedgerExplained /\ InHand
  BY DEF EscrowInv, InHand
<1>2. /\ ToSet(order) \in SUBSET Offered /\ Members \in SUBSET Offered
      /\ Primary \in SUBSET Offered /\ ReservesIssued \in SUBSET Offered
  BY <1>1, IdentityFacts
<1>3. /\ ledger.issuedIds = Activated(job) /\ ledger.settledIds = ledger.issuedIds
      /\ ledger.feeEscrow = Fees(ledger.issuedIds \ ledger.settledIds)
      /\ ledger.retainerEscrow = Retainers(ToSet(order) \ (Primary \cup ReservesIssued))
      /\ ledger.reclassified = Retainers(ReservesIssued)
  BY <1>1 DEF LedgerExplained, WaveReady
<1>4. ledger.feeEscrow = 0
  <2>1. ledger.issuedIds \ ledger.settledIds = {}
    BY <1>3
  <2> QED  BY <1>1, <1>3, <2>1, NothingCosts
<1> DEFINE reserves == (Activated(job) \cup Members) \ Primary
           free == ToSet(order) \ (Primary \cup ReservesIssued)
           rest == ToSet(order) \ (Primary \cup reserves)
<1>5. CASE wave.role = "primary"
  <2>1. Members = Primary /\ Activated(job) = {} /\ Conversion = 0
    BY <1>1, <1>3, <1>5 DEF WaveReady, Conversion
  <2>2. reserves = {} /\ ReservesIssued = {} /\ rest = free
    BY <2>1 DEF ReservesIssued
  <2>3. free \in SUBSET Offered /\ {} \in SUBSET Offered
    BY <1>2
  <2> HIDE DEF reserves, free, rest
  <2>4. Retainers(free) \in Nat /\ Retainers({}) \in Nat
    BY <1>1, <2>3, SetAmounts
  <2>5. ledger.retainerEscrow = Retainers(free) /\ ledger.reclassified = Retainers({})
    BY <1>3, <2>2 DEF free
  <2>6. /\ ledger.retainerEscrow - Conversion = Retainers(rest)
        /\ ledger.reclassified + Conversion = Retainers(reserves)
        /\ Conversion <= ledger.retainerEscrow /\ Conversion \in Nat
    BY <2>1, <2>2, <2>4, <2>5
  <2>7. Members \cap ledger.issuedIds = {}
    BY <1>3, <2>1
  <2> QED  BY <1>2, <1>4, <2>2, <2>6, <2>7 DEF reserves, rest
<1>6. CASE wave.role = "reserve"
  <2>1. Members \subseteq ToSet(order) \ (Primary \cup Activated(job))
        /\ Conversion = Retainers(Members)
    BY <1>1, <1>6 DEF WaveReady, Conversion
  <2>2. /\ reserves = ReservesIssued \cup Members /\ ReservesIssued \cap Members = {}
        /\ free = Members \cup rest /\ Members \cap rest = {}
        /\ rest \in SUBSET Offered
    BY <1>2, <2>1 DEF ReservesIssued
  <2> HIDE DEF reserves, free, rest
  <2>3. /\ Retainers(free) = Retainers(Members) + Retainers(rest)
        /\ Retainers(reserves) = Retainers(ReservesIssued) + Retainers(Members)
    BY <1>1, <1>2, <2>2, ApartAmounts
  <2>4. /\ Retainers(Members) \in Nat /\ Retainers(rest) \in Nat
        /\ Retainers(ReservesIssued) \in Nat
    BY <1>1, <1>2, <2>2, SetAmounts
  <2>5. ledger.retainerEscrow = Retainers(free)
    BY <1>3 DEF free
  <2>6. /\ ledger.retainerEscrow - Conversion = Retainers(rest)
        /\ ledger.reclassified + Conversion = Retainers(reserves)
        /\ Conversion <= ledger.retainerEscrow /\ Conversion \in Nat
    BY <1>3, <2>1, <2>3, <2>4, <2>5
  <2>7. Members \cap ledger.issuedIds = {}
    BY <1>3, <2>1
  <2> QED  BY <1>2, <1>4, <1>6, <2>6, <2>7 DEF reserves, rest
<1> QED  BY <1>1, <1>5, <1>6 DEF StateOK, Roles

\* Issuing never fails a check of the ledger, and fails the allocation only for
\* a conflict the terms contain.
LEMMA IssueRaisesForCause ==
  ASSUME EscrowInv, stage = "issue",
         AllocationRaises(Members)
           \/ IssueRaises(ledger, Members, Fees(Members), Cardinality(Members) * UnitCost,
                          Conversion)
  PROVE  \E v \in Primary : job \in Offers[v].conflicts
<1>1. TermsOK /\ StateOK /\ WaveReady /\ LedgerExplained /\ InHand /\ Validated(ledger)
  BY DEF EscrowInv, InHand
<1>2. /\ Members \in SUBSET Offered /\ Members \cap ledger.issuedIds = {}
      /\ Conversion \in Nat /\ Conversion <= ledger.retainerEscrow
  BY WaveIsCovered
<1>3. ~IssueRaises(ledger, Members, Fees(Members), Cardinality(Members) * UnitCost, Conversion)
  <2> DEFINE fees == Fees(Members)
             costs == Cardinality(Members) * UnitCost
  <2>1. fees \in Nat /\ costs \in Nat
    BY <1>1, <1>2, SetAmounts
  <2>2. ledger \in Ledgers /\ ledger.legacy = CurrentExposure(ledger) + ledger.expired
    BY <1>1 DEF StateOK, LedgerExplained
  <2> HIDE DEF fees, costs
  <2>3. ~IssueRaises(ledger, Members, fees, costs, Conversion)
    BY <1>1, <1>2, <2>1, <2>2, IssueAccepted
  <2> QED  BY <2>3 DEF fees, costs
<1>4. AllocationRaises(Members)
  BY <1>3
<1>5. \E v \in Members : job \in Offers[v].conflicts
  BY <1>1, <1>4 DEF AllocationRaises, WaveReady
<1>6. wave.role = "primary" /\ Members = Primary
  BY <1>1, <1>5 DEF WaveReady, StateOK, Roles
<1> QED  BY <1>5, <1>6

LEMMA IssueHolds ==
  ASSUME EscrowInv, Issue
  PROVE  EscrowInv'
<1> DEFINE fees == Fees(Members)
           costs == Cardinality(Members) * UnitCost
           raises == AllocationRaises(Members)
                       \/ IssueRaises(ledger, Members, fees, costs, Conversion)
           record == [job |-> job, index |-> WaveIndex, role |-> wave.role,
                      members |-> wave.members]
<1>1. /\ stage = "issue" /\ UNCHANGED <<setup, order, job, wave, committed, status>>
      /\ raises => stage' = "raised" /\ UNCHANGED <<ledger, waves>>
      /\ ~raises => /\ stage' = "settle" /\ waves' = Append(waves, record)
                    /\ ledger' = Issued(ledger, Members, fees, costs, Conversion)
  BY DEF Issue
<1>2. /\ TermsOK /\ StateOK /\ WavesSoFar /\ WaveReady /\ LedgerExplained
      /\ Validated(ledger) /\ InHand /\ Commitment /\ Capped
  BY <1>1 DEF EscrowInv, InHand
<1>3. /\ Offered' = Offered /\ Offers' = Offers /\ TermJobs' = TermJobs
      /\ Ledgers' = Ledgers /\ Waves' = Waves /\ TermsOK' /\ Primary' = Primary
      /\ UnitCost' = UnitCost /\ TailAware' = TailAware
  BY <1>1, <1>2, Kept DEF TermsOK, Ledgers, Waves, Primary
<1>4. job \in TermJobs /\ job \in Nat
  BY <1>1, <1>2 DEF StateOK
<1>5. CASE raises
  <2>1. /\ stage' = "raised" /\ UNCHANGED <<setup, order, job, ledger, waves, status>>
        /\ UNCHANGED <<wave, committed>>
    BY <1>1, <1>5
  <2>2. \E v \in Primary : job \in Offers[v].conflicts
    BY <1>1, <1>5, IssueRaisesForCause
  <2>3. RaisesForCause'
    BY <1>3, <2>1, <2>2 DEF RaisesForCause
  <2>4. LedgerExplained' /\ Validated(ledger)' /\ WavesSoFar'
    BY <1>2, <2>1, ExplainedKept
  <2>5. StateOK'
    BY <1>2, <1>3, <1>4, <2>1 DEF StateOK, Stages
  <2>6. Capped'
    <3>1. /\ ReservesIssued' = ReservesIssued /\ HardCap(job)' = HardCap(job)
          /\ CurrentExposure(ledger)' = CurrentExposure(ledger)
      BY <2>1, HistoryKept, Kept DEF CurrentExposure
    <3> QED  BY <1>2, <1>3, <2>1, <3>1 DEF Capped
  <2>7. WaveReady' /\ WaveOutstanding' /\ Commitment'
    BY <2>1 DEF WaveReady, WaveOutstanding, Commitment
  <2> QED  BY <1>3, <2>3, <2>4, <2>5, <2>6, <2>7 DEF EscrowInv
<1>6. CASE ~raises
  <2>1. /\ stage' = "settle" /\ waves' = Append(waves, record)
        /\ ledger' = Issued(ledger, Members, fees, costs, Conversion)
    BY <1>1, <1>6
  <2> DEFINE reserves == (Activated(job) \cup Members) \ Primary
  <2>2. /\ Members \in SUBSET Offered /\ Members \cap ledger.issuedIds = {}
        /\ Conversion \in Nat /\ Conversion <= ledger.retainerEscrow
        /\ ledger.feeEscrow = 0
        /\ ledger.retainerEscrow - Conversion = Retainers(ToSet(order) \ (Primary \cup reserves))
        /\ ledger.reclassified + Conversion = Retainers(reserves)
        /\ wave.role = "primary" => reserves = {}
    BY <1>1, WaveIsCovered
  <2> HIDE DEF reserves
  <2>3. /\ fees \in Nat /\ costs \in Nat /\ fees = Fees(Members)
        /\ AllocationExpenditure(Members) = fees + costs
        /\ FullReservation(Members) = fees + costs
        /\ NetReservation(Members) = fees + costs - Retainers(Members)
        /\ Retainers(Members) \in Nat
    BY <1>2, <2>2, SetAmounts
  <2>4. costs = Cardinality(Members) * UnitCost
    OBVIOUS
  <2> HIDE DEF fees, costs, raises
  <2>5. /\ ledger' \in Ledgers /\ Validated(ledger')
        /\ Moved(ledger, ledger', Members, fees, costs, Conversion)
    <3>1. ledger \in Ledgers /\ ledger.legacy = CurrentExposure(ledger) + ledger.expired
      BY <1>2 DEF StateOK, LedgerExplained
    <3>2. /\ Validated(ledger) /\ Members \in SUBSET Offered
          /\ Members \cap ledger.issuedIds = {} /\ Conversion <= ledger.retainerEscrow
          /\ fees \in Nat /\ costs \in Nat /\ Conversion \in Nat
      BY <1>2, <2>2, <2>3
    <3>3. PICK k : k = ledger'
      OBVIOUS
    <3>4. k = Issued(ledger, Members, fees, costs, Conversion)
      BY <2>1, <3>3
    <3>5. k \in Ledgers /\ Validated(k) /\ Moved(ledger, k, Members, fees, costs, Conversion)
      BY <3>1, <3>2, <3>4, IssueAccepted
    <3> QED  BY <3>3, <3>5
  <2>6. /\ ledger.issuedIds = Activated(job) /\ ledger.issuedIds \in SUBSET Offered
        /\ ledger.settledIds = ledger.issuedIds
        /\ ledger.paidIds \subseteq Passed(job)
        /\ ledger.paid = Fees(ledger.paidIds) /\ ledger.expired = Fees(ledger.expiredIds)
        /\ ledger.irreversible = Cardinality(ledger.issuedIds) * UnitCost
        /\ ledger.gross = CurrentExposure(ledger) + ledger.expired + ledger.reclassified
        /\ ledger.legacy = CurrentExposure(ledger) + ledger.expired
        /\ ledger.gross = Retainers(ToSet(order) \ Primary)
                            + Total(Allocated, {k \in DOMAIN waves : waves[k].job = job})
    BY <1>1, <1>2 DEF LedgerExplained, WaveReady, StateOK, Ledgers
  <2>7. /\ waves \in Seq(Waves) /\ record \in Waves /\ ToSet(record.members) = Members
    <3>1. WaveIndex \in Nat
      <4>1. IsFiniteSet(DOMAIN waves)
        <5>1. DOMAIN waves = 1..Len(waves) /\ Len(waves) \in Nat
          BY <1>2 DEF StateOK
        <5> QED  BY <5>1, FS_Interval
      <4> QED  BY <4>1, FS_Subset, FS_CardinalityType DEF WaveIndex
    <3> QED  BY <1>2, <1>4, <3>1 DEF StateOK, Waves, Members
  <2> HIDE DEF record
  <2> DEFINE n == Len(waves) + 1
  <2>8. /\ n \in Nat /\ n \notin DOMAIN waves /\ DOMAIN waves' = DOMAIN waves \cup {n}
        /\ waves'[n] = record /\ \A k \in DOMAIN waves : waves'[k] = waves[k]
        /\ waves' \in Seq(Waves) /\ DOMAIN waves = 1..Len(waves) /\ Len(waves) \in Nat
    BY <2>1, <2>7
  <2> HIDE DEF n
  <2>9. record.job = job
    BY DEF record
  <2>10. Activated(job)' = Activated(job) \cup Members
    <3>1. \A u : u \in Activated(job) <=>
                   \E k \in DOMAIN waves : waves[k].job = job /\ u \in ToSet(waves[k].members)
      BY DEF Activated, ToSet
    <3>2. \A u : u \in Activated(job)' <=>
                   \E k \in DOMAIN waves' : waves'[k].job = job /\ u \in ToSet(waves'[k].members)
      BY <1>1 DEF Activated, ToSet
    <3>3. \A u : u \in Activated(job)' <=> u \in Activated(job) \/ u \in Members
      BY <2>7, <2>8, <2>9, <3>1, <3>2
    <3> QED  BY <3>3
  <2>11. ReservesIssued' = reserves
    BY <1>3, <2>10 DEF ReservesIssued, reserves
  <2>12. StateOK'
    BY <1>1, <1>2, <1>3, <1>4, <2>1, <2>5, <2>8 DEF StateOK, Stages
  <2>13. WavesSoFar'
    BY <1>1, <1>2, <1>4, <2>1, <2>8, <2>9 DEF WavesSoFar
  <2>14. LedgerExplained'
    <3>1. ledger'.issuedIds = Activated(job)' /\ ledger'.paidIds \subseteq Passed(job)'
      <4>1. Passed(job)' = Passed(job)
        BY <1>1, <1>3 DEF Passed
      <4> QED  BY <2>5, <2>6, <2>10, <4>1 DEF Moved
    <3>2. ledger'.feeEscrow = Fees(ledger'.issuedIds \ ledger'.settledIds)
      <4>1. ledger'.issuedIds \ ledger'.settledIds = Members
        BY <2>2, <2>5, <2>6 DEF Moved
      <4>2. ledger'.feeEscrow = 0 + fees
        BY <2>2, <2>5 DEF Moved
      <4>3. ledger'.feeEscrow = Fees(Members)
        BY <2>3, <4>2
      <4> QED  BY <4>1, <4>3
    <3>3. ledger'.paid = Fees(ledger'.paidIds) /\ ledger'.expired = Fees(ledger'.expiredIds)
      BY <2>5, <2>6 DEF Moved
    <3>4. ledger'.irreversible = Cardinality(ledger'.issuedIds) * UnitCost
      <4>1. ledger'.issuedIds = ledger.issuedIds \cup Members
        BY <2>5 DEF Moved
      <4>2. Cardinality(ledger'.issuedIds) * UnitCost
              = Cardinality(ledger.issuedIds) * UnitCost + Cardinality(Members) * UnitCost
        <5>1. ledger.issuedIds \cap Members = {}
          BY <2>2
        <5> QED  BY <1>2, <2>2, <2>6, <4>1, <5>1, ApartAmounts
      <4> QED  BY <2>4, <2>5, <2>6, <4>2 DEF Moved
    <3>5. /\ ledger'.retainerEscrow = Retainers(ToSet(order) \ (Primary \cup ReservesIssued'))
          /\ ledger'.reclassified = Retainers(ReservesIssued')
      BY <2>2, <2>5, <2>11 DEF Moved
    <3>6. /\ ledger'.gross = CurrentExposure(ledger') + ledger'.expired + ledger'.reclassified
          /\ ledger'.legacy = CurrentExposure(ledger') + ledger'.expired
      <4>1. /\ ledger.expired \in Nat /\ ledger.reclassified \in Nat
            /\ CurrentExposure(ledger) \in Nat
        BY <1>2, LedgerNumbers
      <4> QED  BY <2>2, <2>3, <2>5, <2>6, <4>1 DEF Moved
    <3>7. ledger'.gross = Retainers(ToSet(order) \ Primary)
                            + Total(Allocated', {k \in DOMAIN waves' : waves'[k].job = job})
      <4> DEFINE K == {k \in DOMAIN waves : waves[k].job = job}
                 now == {k \in DOMAIN waves' : waves'[k].job = job}
      <4>1. now = K \cup {n} /\ n \notin K /\ K = now \ {n}
        BY <2>8, <2>9
      <4>2. IsFiniteSet(now)
        <5>1. IsFiniteSet(DOMAIN waves)
          BY <2>8, FS_Interval
        <5>2. IsFiniteSet(K)
          BY <5>1, FS_Subset
        <5> QED  BY <4>1, <5>2, FS_AddElement
      <4>3. \A k \in K : Allocated'[k] = Allocated[k] /\ Allocated[k] \in Nat
        <5> SUFFICES ASSUME NEW k \in K
                     PROVE  Allocated'[k] = Allocated[k] /\ Allocated[k] \in Nat
          OBVIOUS
        <5>1. k \in DOMAIN waves /\ k \in DOMAIN waves' /\ waves'[k] = waves[k]
          BY <2>8
        <5>2. PICK who : who = ToSet(waves[k].members)
          OBVIOUS
        <5>3. who \in SUBSET Offered
          <6>1. waves[k] \in Waves
            BY <2>7, <5>1
          <6> QED  BY <5>2, <6>1 DEF Waves, ToSet
        <5>4. AllocationExpenditure(who)' = AllocationExpenditure(who)
          BY <1>1, Kept
        <5>5. Allocated[k] = AllocationExpenditure(who)
          BY <5>1, <5>2 DEF Allocated
        <5>6. Allocated'[k] = AllocationExpenditure(who)'
          BY <5>1, <5>2 DEF Allocated
        <5>7. AllocationExpenditure(who) \in Nat
          BY <1>2, <5>3, SetAmounts
        <5> QED  BY <5>4, <5>5, <5>6, <5>7
      <4>4. Allocated'[n] = fees + costs
        <5>1. PICK who : who = Members
          OBVIOUS
        <5>2. AllocationExpenditure(who)' = AllocationExpenditure(who)
          BY <1>1, Kept
        <5>3. Allocated'[n] = AllocationExpenditure(who)'
          BY <2>7, <2>8, <5>1 DEF Allocated
        <5> QED  BY <2>3, <5>1, <5>2, <5>3
      <4> HIDE DEF K, now
      <4>5. \A k \in now : Allocated'[k] \in Nat
        BY <2>3, <4>1, <4>3, <4>4
      <4>6. Total(Allocated', now) = Allocated'[n] + Total(Allocated', K)
        <5>1. SumOf(Allocated', now) = Allocated'[n] + SumOf(Allocated', K)
          BY <4>1, <4>2, <4>5, SumOfOneMore DEF Counted
        <5> QED  BY <5>1, TotalIsSum
      <4>7. Total(Allocated', K) = Total(Allocated, K) /\ Total(Allocated, K) \in Nat
        <5>1. IsFiniteSet(K) /\ Cardinality(K) \in Nat
          BY <4>1, <4>2, FS_Subset, FS_CardinalityType
        <5>2. \A k \in K : Allocated'[k] = Allocated[k] + 0
          BY <4>3
        <5>3. SumOf(Allocated', K) = SumOf(Allocated, K) + Cardinality(K) * 0
          BY <4>3, <5>1, <5>2, SumOfShifted DEF Counted
        <5>4. SumOf(Allocated, K) \in Nat
          <6>1. K \cap {} = {} /\ K \cup {} = K /\ IsFiniteSet({})
            BY FS_EmptySet
          <6>2. Counted(Allocated, K)
            BY <4>3 DEF Counted
          <6> QED  BY <5>1, <6>1, <6>2, SumOfUnion
        <5>5. Cardinality(K) * 0 = 0
          BY <5>1
        <5> QED  BY <5>3, <5>4, <5>5, TotalIsSum
      <4>8. ledger'.gross = ledger.gross + fees + costs
        BY <2>5 DEF Moved
      <4>9. ledger.gross = Retainers(ToSet(order) \ Primary) + Total(Allocated, K)
        BY <2>6 DEF K
      <4>10. Retainers(ToSet(order) \ Primary) \in Nat
        <5>1. ToSet(order) \ Primary \in SUBSET Offered
          BY <1>2, IdentityFacts
        <5> QED  BY <1>2, <5>1, SetAmounts
      <4>11. ledger'.gross = Retainers(ToSet(order) \ Primary) + Total(Allocated', now)
        BY <2>3, <4>4, <4>6, <4>7, <4>8, <4>9, <4>10
      <4> QED  BY <1>1, <4>11 DEF now
    <3> QED
      BY <1>1, <3>1, <3>2, <3>3, <3>4, <3>5, <3>6, <3>7, ExplainedNext
  <2>15. Commitment' /\ Capped'
    <3>1. /\ CurrentExposure(ledger) \in Nat /\ ledger.legacy \in Nat
          /\ committed \in Int
      BY <1>2, LedgerNumbers
    <3>2. Conversion = IF wave.role = "primary" THEN 0 ELSE Retainers(Members)
      BY DEF Conversion
    <3>3. Commitment'
      <4>1. ledger'.legacy = ledger.legacy + fees + costs - Conversion
        BY <2>5 DEF Moved
      <4>2. committed = ledger.legacy + (IF wave.role = "primary" THEN FullReservation(Members)
                                         ELSE NetReservation(Members))
        BY <1>1, <1>2 DEF Commitment
      <4>3. committed' = ledger'.legacy
        <5>1. CASE wave.role = "primary"
          <6>1. Conversion = 0 /\ committed = ledger.legacy + FullReservation(Members)
            BY <3>2, <4>2, <5>1
          <6> QED  BY <1>1, <2>3, <3>1, <4>1, <6>1
        <5>2. CASE wave.role # "primary"
          <6>1. /\ Conversion = Retainers(Members)
                /\ committed = ledger.legacy + NetReservation(Members)
            BY <3>2, <4>2, <5>2
          <6> QED  BY <1>1, <2>3, <3>1, <4>1, <6>1
        <5> QED  BY <5>1, <5>2
      <4> QED  BY <2>1, <4>3 DEF Commitment
    <3>4. Capped'
      <4> SUFFICES ASSUME TailAware, reserves # {}
                   PROVE  CurrentExposure(ledger') <= HardCap(job)
        <5>1. HardCap(job)' = HardCap(job) /\ CurrentExposure(ledger)' = CurrentExposure(ledger')
          BY <1>1, Kept DEF CurrentExposure
        <5> QED  BY <1>3, <2>1, <2>11, <5>1 DEF Capped
      <4>1. wave.role = "reserve"
        BY <1>2, <2>2 DEF StateOK, Roles
      <4>2. CurrentExposure(ledger) + NetReservation(Members) <= HardCap(job)
        BY <1>1, <1>2, <4>1 DEF Capped
      <4>3. CurrentExposure(ledger') = CurrentExposure(ledger) - Retainers(Members) + fees + costs
        BY <2>5, <3>2, <4>1 DEF Moved
      <4>4. HardCap(job) \in Nat
        BY <1>1, <1>2, CapIsNatural
      <4>5. CurrentExposure(ledger') = CurrentExposure(ledger) + NetReservation(Members)
        BY <2>3, <3>1, <4>3
      <4> QED  BY <4>2, <4>5
    <3> QED  BY <3>3, <3>4
  <2>16. WaveReady' /\ WaveOutstanding' /\ RaisesForCause'
    <3>1. ledger'.issuedIds \ ledger'.settledIds = Members
      BY <2>2, <2>5, <2>6 DEF Moved
    <3>2. Members' = Members
      BY <1>1 DEF Members
    <3> QED  BY <2>1, <3>1, <3>2 DEF WaveReady, WaveOutstanding, RaisesForCause
  <2>17. Validated(ledger)'
    BY <2>5 DEF Validated, Amounts, CurrentExposure
  <2> QED  BY <1>3, <2>12, <2>13, <2>14, <2>15, <2>16, <2>17 DEF EscrowInv
<1> QED  BY <1>5, <1>6

LEMMA SettleHolds ==
  ASSUME EscrowInv, Settle
  PROVE  EscrowInv'
<1>1. /\ TermsOK /\ StateOK /\ WavesSoFar /\ WaveOutstanding /\ LedgerExplained
      /\ Validated(ledger) /\ Commitment /\ Capped
  BY DEF EscrowInv
<1>2. PICK outcome \in [Members -> setup.outcomes \cup {"DROPOUT"}] :
        LET paidIds == {v \in Members : outcome[v] = "PASS"}
            expiredIds == {v \in Members : outcome[v] \in {"FAIL_CONFIRMED", "DROPOUT"}}
        IN  /\ stage = "settle"
            /\ status' = [status EXCEPT ![job] = [v \in Offered |->
                            IF v \in Members THEN outcome[v] ELSE status[job][v]]]
            /\ IF \/ paidIds \cup expiredIds # Members
                  \/ SettleRaises(ledger, paidIds, expiredIds, Fees(paidIds), Fees(expiredIds))
               THEN stage' = "raised" /\ UNCHANGED ledger
               ELSE /\ stage' = "reconstitute"
                    /\ ledger' = Settled(ledger, paidIds, expiredIds, Fees(paidIds),
                                         Fees(expiredIds))
            /\ UNCHANGED <<setup, order, job, wave, committed, waves, results, transfers>>
  BY DEF Settle
<1> DEFINE P == {v \in Members : outcome[v] = "PASS"}
           X == {v \in Members : outcome[v] \in {"FAIL_CONFIRMED", "DROPOUT"}}
           refused == P \cup X # Members \/ SettleRaises(ledger, P, X, Fees(P), Fees(X))
<1>3. /\ stage = "settle" /\ UNCHANGED <<setup, order, job, wave, committed, waves>>
      /\ status' = [status EXCEPT ![job] = [v \in Offered |->
                      IF v \in Members THEN outcome[v] ELSE status[job][v]]]
      /\ refused => stage' = "raised" /\ UNCHANGED ledger
      /\ ~refused => /\ stage' = "reconstitute"
                     /\ ledger' = Settled(ledger, P, X, Fees(P), Fees(X))
  BY <1>2
<1>4. /\ Offered' = Offered /\ Offers' = Offers /\ TermJobs' = TermJobs
      /\ Ledgers' = Ledgers /\ Waves' = Waves /\ TermsOK' /\ TailAware' = TailAware
      /\ \A S : Fees(S)' = Fees(S)
  BY <1>1, <1>3, Kept DEF TermsOK, Ledgers, Waves
<1>5. /\ Primary' = Primary /\ ReservesIssued' = ReservesIssued /\ Allocated' = Allocated
      /\ Activated(job)' = Activated(job)
  BY <1>3, HistoryKept
<1>6. /\ job \in TermJobs /\ Members \in SUBSET Offered /\ P \in SUBSET Offered
      /\ X \in SUBSET Offered /\ P \cap X = {} /\ P \subseteq Members /\ X \subseteq Members
  <2>1. Members \in SUBSET Offered
    BY <1>1, IdentityFacts
  <2> QED  BY <1>1, <1>3, <2>1 DEF StateOK
<1>7. /\ ledger \in Ledgers /\ ledger.issuedIds \ ledger.settledIds = Members
      /\ ledger.issuedIds = Activated(job) /\ ledger.paidIds \subseteq Passed(job)
      /\ ledger.feeEscrow = Fees(ledger.issuedIds \ ledger.settledIds)
      /\ ledger.paid = Fees(ledger.paidIds) /\ ledger.expired = Fees(ledger.expiredIds)
      /\ ledger.irreversible = Cardinality(ledger.issuedIds) * UnitCost
      /\ ledger.retainerEscrow = Retainers(ToSet(order) \ (Primary \cup ReservesIssued))
      /\ ledger.reclassified = Retainers(ReservesIssued)
      /\ ledger.gross = CurrentExposure(ledger) + ledger.expired + ledger.reclassified
      /\ ledger.legacy = CurrentExposure(ledger) + ledger.expired
      /\ ledger.gross = Retainers(ToSet(order) \ Primary)
                          + Total(Allocated, {k \in DOMAIN waves : waves[k].job = job})
  BY <1>1, <1>3 DEF StateOK, WaveOutstanding, LedgerExplained, InHand
<1>8. \A v \in Offered : status'[job][v] = IF v \in Members THEN outcome[v] ELSE status[job][v]
  BY <1>1, <1>3, <1>6 DEF StateOK
<1>9. /\ ledger.paidIds \cup P \subseteq Passed(job)'
      /\ ledger.paidIds \cap P = {} /\ ledger.expiredIds \cap X = {}
      /\ ledger.paidIds \in SUBSET Offered /\ ledger.expiredIds \in SUBSET Offered
  <2>1. /\ ledger.paidIds \cup ledger.expiredIds = ledger.settledIds
        /\ ledger.paidIds \in SUBSET Offered /\ ledger.expiredIds \in SUBSET Offered
    BY <1>1, <1>7 DEF Validated, Ledgers
  <2>2. ledger.paidIds \cap Members = {} /\ ledger.expiredIds \cap Members = {}
    BY <1>7, <2>1
  <2>3. \A v \in ledger.paidIds : status'[job][v] = "PASS"
    BY <1>7, <1>8, <2>1, <2>2 DEF Passed
  <2>4. \A v \in P : status'[job][v] = "PASS"
    BY <1>6, <1>8
  <2>5. ledger.paidIds \subseteq Offered' /\ P \subseteq Offered'
    BY <1>4, <1>6, <2>1
  <2>6. Passed(job)' = {v \in Offered' : status'[job'][v] = "PASS"}
    BY DEF Passed
  <2> HIDE DEF P, X
  <2>7. ledger.paidIds \cup P \subseteq Passed(job)'
    BY <1>3, <2>3, <2>4, <2>5, <2>6
  <2> QED  BY <1>6, <2>1, <2>2, <2>7
<1>10. status' \in [TermJobs -> [Offered -> Statuses]]
  <2>1. \A v \in Members : outcome[v] \in Statuses
    BY <1>1, Terms DEF Statuses, FinalStatuses
  <2>2. [v \in Offered |-> IF v \in Members THEN outcome[v] ELSE status[job][v]]
          \in [Offered -> Statuses]
    BY <1>1, <1>6, <2>1 DEF StateOK
  <2> QED  BY <1>1, <1>3, <1>6, <2>2 DEF StateOK
<1>11. WavesSoFar' /\ WaveReady'
  BY <1>1, <1>3 DEF WavesSoFar, WaveReady
<1>12. /\ Fees(P) \in Nat /\ Fees(X) \in Nat /\ CurrentExposure(ledger) \in Nat
       /\ ledger.paid \in Nat /\ ledger.expired \in Nat /\ ledger.reclassified \in Nat
  BY <1>1, <1>6, <1>7, SetAmounts DEF Ledgers, CurrentExposure
<1>13. CASE P \cup X = Members
  <2>1. Fees(Members) = Fees(P) + Fees(X)
    <3> HIDE DEF P, X
    <3>1. Members = P \cup X
      BY <1>13
    <3> QED  BY <1>1, <1>6, <3>1, ApartAmounts
  <2>2. ledger.feeEscrow = Fees(P) + Fees(X)
    <3>1. ledger.feeEscrow = Fees(Members)
      BY <1>7
    <3> QED  BY <2>1, <3>1
  <2>3. PICK k : k = Settled(ledger, P, X, Fees(P), Fees(X))
    OBVIOUS
  <2>4. /\ k \in Ledgers /\ Validated(k) /\ Released(ledger, k, P, X, Fees(P), Fees(X))
        /\ ~SettleRaises(ledger, P, X, Fees(P), Fees(X))
    <3> DEFINE p == Fees(P)
               x == Fees(X)
    <3>1. /\ P \cup X \subseteq ledger.issuedIds /\ (P \cup X) \cap ledger.settledIds = {}
          /\ p \in Nat /\ x \in Nat /\ p + x <= ledger.feeEscrow
          /\ k = Settled(ledger, P, X, p, x)
      BY <1>7, <1>12, <1>13, <2>2, <2>3
    <3> HIDE DEF P, X, p, x
    <3>2. /\ k \in Ledgers /\ Validated(k) /\ Released(ledger, k, P, X, p, x)
          /\ ~SettleRaises(ledger, P, X, p, x)
      BY <1>1, <1>6, <1>7, <3>1, SettleAccepted
    <3> QED  BY <3>2 DEF p, x
  <2>5. stage' = "reconstitute" /\ ledger' = k
    BY <1>3, <1>13, <2>3, <2>4
  <2> HIDE DEF P, X, refused
  <2>6. Validated(ledger)'
    BY <2>4, <2>5 DEF Validated, Amounts, CurrentExposure
  <2>7. LedgerExplained'
    <3>1. ledger'.issuedIds = Activated(job)' /\ ledger'.paidIds \subseteq Passed(job)'
      BY <1>5, <1>7, <1>9, <2>4, <2>5 DEF Released
    <3>2. ledger'.feeEscrow = Fees(ledger'.issuedIds \ ledger'.settledIds)
      <4>1. ledger'.issuedIds \ ledger'.settledIds = {}
        BY <1>7, <1>13, <2>4, <2>5 DEF Released
      <4>2. ledger'.feeEscrow = 0
        BY <1>12, <2>2, <2>4, <2>5 DEF Released
      <4>3. ledger'.feeEscrow = Fees({})
        BY <1>1, <4>2, NothingCosts
      <4> QED  BY <4>1, <4>3
    <3>3. ledger'.paid = Fees(ledger'.paidIds)
      <4>1. ledger'.paidIds = ledger.paidIds \cup P /\ ledger'.paid = ledger.paid + Fees(P)
        BY <2>4, <2>5 DEF Released
      <4>2. Fees(ledger'.paidIds) = Fees(ledger.paidIds) + Fees(P)
        BY <1>1, <1>6, <1>9, <4>1, ApartAmounts
      <4> QED  BY <1>7, <4>1, <4>2
    <3>4. ledger'.expired = Fees(ledger'.expiredIds)
      <4>1. ledger'.expiredIds = ledger.expiredIds \cup X /\ ledger'.expired = ledger.expired + Fees(X)
        BY <2>4, <2>5 DEF Released
      <4>2. Fees(ledger'.expiredIds) = Fees(ledger.expiredIds) + Fees(X)
        BY <1>1, <1>6, <1>9, <4>1, ApartAmounts
      <4> QED  BY <1>7, <4>1, <4>2
    <3>5. /\ ledger'.irreversible = Cardinality(ledger'.issuedIds) * UnitCost
          /\ ledger'.retainerEscrow = Retainers(ToSet(order) \ (Primary \cup ReservesIssued'))
          /\ ledger'.reclassified = Retainers(ReservesIssued')
      BY <1>5, <1>7, <2>4, <2>5 DEF Released
    <3>6. /\ ledger'.gross = CurrentExposure(ledger') + ledger'.expired + ledger'.reclassified
          /\ ledger'.legacy = CurrentExposure(ledger') + ledger'.expired
      BY <1>7, <1>12, <2>4, <2>5 DEF Released
    <3>7. ledger'.gross = Retainers(ToSet(order) \ Primary)
                            + Total(Allocated', {w \in DOMAIN waves' : waves'[w].job = job})
      BY <1>3, <1>5, <1>7, <2>4, <2>5 DEF Released
    <3> QED
      BY <1>3, <3>1, <3>2, <3>3, <3>4, <3>5, <3>6, <3>7, ExplainedNext
  <2>8. Commitment'
    BY <1>1, <1>3, <2>4, <2>5 DEF Commitment, Released
  <2>9. Capped'
    <3>1. HardCap(job)' = HardCap(job) /\ HardCap(job) \in Nat
      BY <1>1, <1>3, Kept, CapIsNatural
    <3>2. CurrentExposure(ledger)' = CurrentExposure(ledger) - Fees(X)
      BY <2>4, <2>5 DEF Released, CurrentExposure
    <3>3. CurrentExposure(ledger)' <= CurrentExposure(ledger) /\ CurrentExposure(ledger)' \in Int
      BY <1>12, <3>2
    <3>4. ASSUME TailAware', ReservesIssued' # {} PROVE CurrentExposure(ledger)' <= HardCap(job)'
      <4>1. CurrentExposure(ledger) <= HardCap(job)
        BY <1>1, <1>3, <1>4, <1>5, <3>4 DEF Capped, InHand
      <4> QED  BY <1>12, <3>1, <3>3, <4>1
    <3> QED  BY <2>5, <3>4 DEF Capped
  <2>10. StateOK'
    BY <1>1, <1>3, <1>4, <1>6, <1>10, <2>4, <2>5 DEF StateOK, Stages
  <2>11. WaveOutstanding' /\ RaisesForCause'
    <3>1. ledger'.settledIds = ledger'.issuedIds
      <4>1. ledger.settledIds \subseteq ledger.issuedIds
        BY <1>1 DEF Validated
      <4> QED  BY <1>7, <1>13, <2>4, <2>5, <4>1 DEF Released
    <3> QED  BY <2>5, <3>1 DEF WaveOutstanding, RaisesForCause
  <2> QED  BY <1>4, <1>11, <2>6, <2>7, <2>8, <2>9, <2>10, <2>11 DEF EscrowInv
<1>14. CASE P \cup X # Members
  <2>1. stage' = "raised" /\ ledger' = ledger
    BY <1>3, <1>14
  <2>2. PICK v \in Members : v \notin P \cup X
    BY <1>6, <1>14
  <2>3. outcome[v] = "TECHNICAL_FAILURE"
    <3>1. outcome[v] \in Statuses \ {"none"}
      BY <1>1, Terms DEF Statuses, FinalStatuses
    <3> QED  BY <2>2, <3>1 DEF Statuses, FinalStatuses
  <2> HIDE DEF P, X, refused
  <2>4. RaisesForCause'
    <3>1. v \in Activated(job)' /\ status'[job][v] = "TECHNICAL_FAILURE"
      BY <1>5, <1>6, <1>7, <1>8, <2>2, <2>3
    <3> QED  BY <1>3, <3>1 DEF RaisesForCause
  <2>5. LedgerExplained'
    <3>1. ledger'.paidIds \subseteq Passed(job)'
      BY <1>9, <2>1
    <3> QED  BY <1>3, <1>5, <1>7, <2>1, <3>1, ExplainedNext
  <2>6. Validated(ledger)'
    BY <1>1, <2>1 DEF Validated, Amounts, CurrentExposure
  <2>7. Capped'
    <3>1. HardCap(job)' = HardCap(job) /\ CurrentExposure(ledger)' = CurrentExposure(ledger)
      BY <1>3, <2>1, Kept DEF CurrentExposure
    <3> QED  BY <1>1, <1>3, <1>4, <1>5, <2>1, <3>1 DEF Capped, InHand
  <2>8. StateOK'
    BY <1>1, <1>3, <1>4, <1>6, <1>10, <2>1 DEF StateOK, Stages
  <2>9. WaveOutstanding' /\ Commitment'
    BY <2>1 DEF WaveOutstanding, Commitment
  <2> QED  BY <1>4, <1>11, <2>4, <2>5, <2>6, <2>7, <2>8, <2>9 DEF EscrowInv
<1> QED  BY <1>13, <1>14

\* A step that only records what was reconstituted, or waits for nothing, keeps
\* what the waves and the ledger obey.
LEMMA RecordingHolds ==
  ASSUME EscrowInv, stage \in {"reconstitute", "decide"},
         stage' \in {"decide", "close"},
         UNCHANGED <<setup, order, job, wave, ledger, committed, waves, status>>
  PROVE  EscrowInv'
<1>1. /\ TermsOK /\ StateOK /\ WaveOutstanding /\ Commitment /\ Capped /\ InHand
  BY DEF EscrowInv, InHand
<1>2. /\ Offered' = Offered /\ TermJobs' = TermJobs /\ TermsOK' /\ TailAware' = TailAware
      /\ Ledgers' = Ledgers /\ Waves' = Waves /\ HardCap(job)' = HardCap(job)
      /\ ReservesIssued' = ReservesIssued
  BY <1>1, Kept, HistoryKept DEF TermsOK, Ledgers, Waves
<1>3. LedgerExplained' /\ Validated(ledger)' /\ WavesSoFar'
  BY <1>1, ExplainedKept
<1>4. StateOK'
  BY <1>1, <1>2 DEF StateOK, Stages
<1>5. Capped'
  <2>1. CurrentExposure(ledger)' = CurrentExposure(ledger)
    BY DEF CurrentExposure
  <2> QED  BY <1>1, <1>2, <2>1 DEF Capped, InHand
<1>6. WaveReady' /\ WaveOutstanding' /\ Commitment' /\ RaisesForCause'
  BY <1>1 DEF WaveReady, WaveOutstanding, Commitment, RaisesForCause
<1> QED  BY <1>2, <1>3, <1>4, <1>5, <1>6 DEF EscrowInv

\* What the decisions compare with the cap.
LEMMA ActivatesWithin ==
  ASSUME NEW candidates, NEW before, NEW hardCap,
         Decision(candidates, before, hardCap) = "ACTIVATE"
  PROVE  /\ candidates # <<>>
         /\ ~(before + NetReservation(ToSet(candidates)) > hardCap)
BY DEF Decision

LEMMA ActivateHolds ==
  ASSUME EscrowInv, Activate
  PROVE  EscrowInv'
<1>1. /\ stage = "decide" /\ stage' = "issue" /\ RegisteredDecision = "ACTIVATE"
      /\ wave' = [role |-> "reserve", members |-> Candidates]
      /\ committed' = committed + NetReservation(ToSet(Candidates))
      /\ UNCHANGED <<setup, order, job, ledger, waves, status>>
  BY DEF Activate
<1>2. /\ TermsOK /\ StateOK /\ WaveOutstanding /\ Commitment /\ Capped /\ InHand
      /\ LedgerExplained
  BY <1>1 DEF EscrowInv, InHand
<1>3. /\ Offered' = Offered /\ Offers' = Offers /\ TermJobs' = TermJobs /\ TermsOK'
      /\ TailAware' = TailAware
      /\ Ledgers' = Ledgers /\ Waves' = Waves /\ HardCap(job)' = HardCap(job)
      /\ ReservesIssued' = ReservesIssued /\ Primary' = Primary
      /\ Activated(job)' = Activated(job)
  BY <1>1, <1>2, Kept, HistoryKept DEF TermsOK, Ledgers, Waves
<1>4. LedgerExplained' /\ Validated(ledger)' /\ WavesSoFar'
  BY <1>1, <1>2, ExplainedKept
<1>5. /\ Candidates \in Seq(Offered)
      /\ ToSet(Candidates) \subseteq ToSet(order) \ (Primary \cup Activated(job) \cup Excluded)
  <2>1. order \in Seq(Offered) /\ setup.batch \in Nat
    BY <1>2, Terms DEF TermsOK
  <2>2. FreeBatch(Candidates, Offered, order, Primary, Activated(job), Excluded)
    BY <2>1, BatchIsFree DEF Candidates
  <2> QED  BY <2>2 DEF FreeBatch
<1> DEFINE next == ToSet(Candidates)
<1>6. next \in SUBSET Offered
  BY <1>5 DEF ToSet
<1>7. Candidates # <<>>
  <2>1. CASE setup.policy = "prefix"
    BY <1>1, <2>1 DEF RegisteredDecision
  <2>2. CASE setup.policy = "rtr"
    <3>1. TailAwareDecision = "ACTIVATE"
      BY <1>1, <2>2 DEF RegisteredDecision
    <3> QED  BY <3>1, ActivatesWithin DEF TailAwareDecision
  <2>3. CASE setup.policy = "sare"
    <3>1. SettlementAwareDecision = "ACTIVATE"
      BY <1>1, <2>3 DEF RegisteredDecision
    <3> QED  BY <3>1, ActivatesWithin DEF SettlementAwareDecision
  <2> QED  BY <1>2, <2>1, <2>2, <2>3, Terms DEF Policies
<1>8. next # {}
  <2>1. 1 \in DOMAIN Candidates
    BY <1>5, <1>7
  <2> QED  BY <2>1 DEF ToSet
<1>9. /\ NetReservation(next) \in Int /\ committed \in Int
      /\ ledger.legacy \in Nat /\ ledger.expired \in Nat
      /\ CurrentExposure(ledger) \in Nat /\ ledger.legacy = CurrentExposure(ledger) + ledger.expired
  <2>1. NetReservation(next) \in Int
    <3> HIDE DEF next
    <3> QED  BY <1>2, <1>6, SetAmounts
  <2>2. CurrentExposure(ledger) \in Nat /\ committed \in Int /\ ledger \in Ledgers
    BY <1>2, LedgerNumbers
  <2>3. ledger.legacy \in Nat /\ ledger.expired \in Nat
    BY <2>2 DEF Ledgers
  <2>4. ledger.legacy = CurrentExposure(ledger) + ledger.expired
    BY <1>2 DEF LedgerExplained
  <2> QED  BY <2>1, <2>2, <2>3, <2>4
<1>10. Members' = next
  BY <1>1 DEF Members
<1>11. TailAware => CurrentExposure(ledger) + NetReservation(next) <= HardCap(job)
  <2>1. committed = ledger.legacy /\ HardCap(job) \in Nat
    BY <1>1, <1>2, CapIsNatural DEF Commitment
  <2>2. CASE setup.policy = "rtr"
    <3>1. TailAwareDecision = "ACTIVATE"
      BY <1>1, <2>2 DEF RegisteredDecision
    <3>2. ~(committed + NetReservation(next) > HardCap(job))
      BY <3>1, ActivatesWithin DEF TailAwareDecision
    <3> HIDE DEF next
    <3> QED  BY <1>9, <2>1, <3>2
  <2>3. CASE setup.policy = "sare"
    <3>1. SettlementAwareDecision = "ACTIVATE"
      BY <1>1, <2>3 DEF RegisteredDecision
    <3>2. ~(CurrentExposure(ledger) + NetReservation(next) > HardCap(job))
      BY <3>1, ActivatesWithin DEF SettlementAwareDecision
    <3> HIDE DEF next
    <3> QED  BY <1>9, <2>1, <3>2
  <2> QED  BY <1>2, <2>2, <2>3, Terms DEF Policies, TailAware
<1>12. NetReservation(Members)' = NetReservation(next)
  <2>1. PICK who : who = next
    OBVIOUS
  <2>2. NetReservation(who)' = NetReservation(who)
    BY <1>1, Kept
  <2>3. NetReservation(Members)' = NetReservation(who)'
    BY <1>10, <2>1
  <2> QED  BY <2>1, <2>2, <2>3
<1>13. WaveReady'
  <2>1. \A v \in next : job \notin Offers[v].conflicts
    BY <1>5, <1>6 DEF Excluded
  <2>2. next \subseteq ToSet(order) \ (Primary \cup Activated(job))
    BY <1>5
  <2>3. ledger.settledIds = ledger.issuedIds
    BY <1>1, <1>2 DEF WaveOutstanding
  <2>4. wave'.role # "primary"
    BY <1>1
  <2> HIDE DEF next
  <2> QED  BY <1>1, <1>3, <1>8, <1>10, <2>1, <2>2, <2>3, <2>4 DEF WaveReady
<1>14. StateOK'
  <2>1. wave' \in [role: Roles, members: Seq(Offered)]
    BY <1>1, <1>5 DEF Roles
  <2>2. committed' \in Int
    BY <1>1, <1>9
  <2> QED  BY <1>1, <1>2, <1>3, <2>1, <2>2 DEF StateOK, Stages
<1>15. Commitment'
  <2>1. committed = ledger.legacy /\ wave'.role # "primary"
    BY <1>1, <1>2 DEF Commitment
  <2>2. committed' = ledger'.legacy + NetReservation(Members)'
    BY <1>1, <1>12, <2>1
  <2> QED  BY <1>1, <2>1, <2>2 DEF Commitment
<1>16. Capped'
  <2>1. CurrentExposure(ledger)' = CurrentExposure(ledger)
    BY <1>1 DEF CurrentExposure
  <2> QED  BY <1>1, <1>2, <1>3, <1>11, <1>12, <2>1 DEF Capped, InHand
<1>17. WaveOutstanding' /\ RaisesForCause'
  BY <1>1 DEF WaveOutstanding, RaisesForCause
<1> QED  BY <1>3, <1>4, <1>13, <1>14, <1>15, <1>16, <1>17 DEF EscrowInv

\* Every transfer adds up.
LEMMA TransfersAddUp ==
  ASSUME TermsOK, StateOK, stage # "done"
  PROVE  RecordsConserve(TransferRecords)
<1>1. /\ Primary \in SUBSET Offered /\ Activated(job) \in SUBSET Offered
      /\ setup.retainer \in Nat /\ \A v \in Offered : FeeOf[v] \in Nat
  BY IdentityFacts, Terms
<1>2. \A v \in Offered : PaidService(v) \in Nat
  BY <1>1 DEF PaidService
<1>3. \A v \in Primary : PrimaryRecord(v).availability + PrimaryRecord(v).activation
                           = PrimaryRecord(v).total
  BY <1>1, <1>2 DEF PrimaryRecord, Record
<1>4. ASSUME NEW v \in Activated(job)
      PROVE  ActiveReserveRecord(v).availability + ActiveReserveRecord(v).activation
               = ActiveReserveRecord(v).total
  <2> DEFINE paid == PaidService(v)
             both == {setup.retainer, paid}
             credit == Min(both)
  <2>1. paid \in Nat /\ both = {setup.retainer, paid} /\ setup.retainer \in Int /\ paid \in Int
    BY <1>1, <1>2
  <2> HIDE DEF both, paid
  <2>2. credit \in {setup.retainer, paid}
    BY <2>1, MinOfTwo
  <2>3. credit \in Nat
    BY <1>1, <2>1, <2>2
  <2> HIDE DEF credit
  <2>4. credit + (PaidService(v) - credit) = PaidService(v)
    BY <2>1, <2>3 DEF paid
  <2>5. Min({setup.retainer, PaidService(v)}) = credit
    BY DEF credit, both, paid
  <2> QED  BY <2>4, <2>5 DEF ActiveReserveRecord, Record
<1>5. \A v : IdleReserveRecord(v).availability + IdleReserveRecord(v).activation
               = IdleReserveRecord(v).total
  BY <1>1 DEF IdleReserveRecord, Record
<1> QED  BY <1>3, <1>4, <1>5 DEF RecordsConserve, TransferRecords

LEMMA CloseHolds ==
  ASSUME EscrowInv, Close
  PROVE  EscrowInv'
<1>1. stage = "close" /\ UNCHANGED <<setup, order, wave, ledger, committed, waves, status>>
  BY DEF Close
<1>2. TermsOK /\ StateOK /\ Validated(ledger) /\ WavesSoFar
  BY DEF EscrowInv
<1>3. job' = job + 1 /\ stage' = (IF job + 1 \in TermJobs THEN "lock" ELSE "done")
  BY <1>1, <1>2, TransfersAddUp DEF Close
<1>4. /\ Offered' = Offered /\ TermJobs' = TermJobs /\ TermsOK'
      /\ Ledgers' = Ledgers /\ Waves' = Waves
  BY <1>1, <1>2, Kept DEF TermsOK, Ledgers, Waves
<1>5. StateOK'
  BY <1>1, <1>2, <1>3, <1>4 DEF StateOK, Stages
<1>6. WavesSoFar'
  <2>1. \A k \in DOMAIN waves : waves[k].job \in Nat
    <3>1. \A k \in DOMAIN waves : waves[k] \in Waves
      BY <1>2 DEF StateOK
    <3>2. TermJobs \subseteq Nat
      BY <1>2, Terms DEF TermJobs
    <3> QED  BY <3>1, <3>2 DEF Waves
  <2>2. job \in Nat /\ \A k \in DOMAIN waves : waves[k].job <= job
    BY <1>2 DEF StateOK, WavesSoFar
  <2>3. \A k \in DOMAIN waves : waves[k].job < job + 1 /\ waves[k].job <= job + 1
    BY <2>1, <2>2
  <2> QED  BY <1>1, <1>3, <2>3 DEF WavesSoFar
<1>7. Validated(ledger)'
  BY <1>1, <1>2 DEF Validated, Amounts, CurrentExposure
<1>8. stage' \in {"lock", "done"}
  BY <1>3
<1>9. /\ WaveReady' /\ WaveOutstanding' /\ LedgerExplained' /\ RaisesForCause'
      /\ Commitment' /\ Capped'
  BY <1>8 DEF WaveReady, WaveOutstanding, LedgerExplained, RaisesForCause, Commitment,
              Capped, InHand
<1> QED  BY <1>4, <1>5, <1>6, <1>7, <1>9 DEF EscrowInv

-------------------------------------------------------------------------------
(* The theorems                                                            *)

LEMMA NextHolds ==
  ASSUME EscrowInv, [Next]_vars
  PROVE  EscrowInv'
<1>1. CASE Lock
  BY <1>1, LockHolds
<1>2. CASE Issue
  BY <1>2, IssueHolds
<1>3. CASE Settle
  BY <1>3, SettleHolds
<1>4. CASE Reconstitute
  <2>1. /\ stage = "reconstitute" /\ stage' \in {"decide", "close"}
        /\ UNCHANGED <<setup, order, job, wave, ledger, committed, waves, status>>
    BY <1>4 DEF Reconstitute
  <2> QED  BY <2>1, RecordingHolds
<1>5. CASE Activate
  BY <1>5, ActivateHolds
<1>6. CASE Abstain
  <2>1. /\ stage = "decide" /\ stage' \in {"decide", "close"}
        /\ UNCHANGED <<setup, order, job, wave, ledger, committed, waves, status>>
    BY <1>6 DEF Abstain
  <2> QED  BY <2>1, RecordingHolds
<1>7. CASE Close
  BY <1>7, CloseHolds
<1>8. CASE UNCHANGED vars
  <2>1. UNCHANGED <<setup, order, job, stage, wave, ledger, committed, waves, status>>
    BY <1>8 DEF vars
  <2>2. /\ TermsOK /\ StateOK /\ WavesSoFar /\ WaveReady /\ WaveOutstanding
        /\ LedgerExplained /\ RaisesForCause /\ Commitment /\ Capped /\ Validated(ledger)
    BY DEF EscrowInv
  <2>3. /\ Offered' = Offered /\ Offers' = Offers /\ TermJobs' = TermJobs /\ TermsOK'
        /\ Ledgers' = Ledgers /\ Waves' = Waves /\ HardCap(job)' = HardCap(job)
        /\ TailAware' = TailAware
        /\ ReservesIssued' = ReservesIssued /\ Primary' = Primary
        /\ Activated(job)' = Activated(job)
    BY <2>1, <2>2, Kept, HistoryKept DEF TermsOK, Ledgers, Waves
  <2>4. Members' = Members /\ CurrentExposure(ledger)' = CurrentExposure(ledger)
    BY <2>1 DEF Members, CurrentExposure
  <2>5. /\ FullReservation(Members)' = FullReservation(Members)
        /\ NetReservation(Members)' = NetReservation(Members)
    <3>1. PICK who : who = Members
      OBVIOUS
    <3>2. /\ FullReservation(who)' = FullReservation(who)
          /\ NetReservation(who)' = NetReservation(who)
      BY <2>1, Kept
    <3>3. /\ FullReservation(Members)' = FullReservation(who)'
          /\ NetReservation(Members)' = NetReservation(who)'
      BY <2>4, <3>1
    <3> QED  BY <3>1, <3>2, <3>3
  <2>6. StateOK'
    BY <2>1, <2>2, <2>3 DEF StateOK
  <2>7. LedgerExplained'
    <3>1. CASE InHand /\ stage' # "lock"
      BY <2>1, <3>1, ExplainedKept
    <3>2. CASE ~InHand \/ stage' = "lock"
      BY <2>1, <3>2 DEF LedgerExplained, InHand
    <3> QED  BY <3>1, <3>2
  <2>8. Validated(ledger)' /\ WavesSoFar'
    BY <2>1, <2>2 DEF Validated, Amounts, CurrentExposure, WavesSoFar
  <2>9. WaveReady' /\ WaveOutstanding' /\ RaisesForCause'
    BY <2>1, <2>2, <2>3, <2>4 DEF WaveReady, WaveOutstanding, RaisesForCause
  <2>10. Commitment' /\ Capped'
    BY <2>1, <2>2, <2>3, <2>4, <2>5 DEF Commitment, Capped, InHand
  <2> QED  BY <2>3, <2>6, <2>7, <2>8, <2>9, <2>10 DEF EscrowInv
<1> QED
  BY <1>1, <1>2, <1>3, <1>4, <1>5, <1>6, <1>7, <1>8 DEF Next, Stopped

(* Whatever the owner's terms, the committees, the reserves and the        *)
(* settlements, the ledger, the waves and the decisions of a recovery fit  *)
(* together after every call of verifier_reserve_recovery.py.              *)
THEOREM EscrowInvAlways == Spec => []EscrowInv
<1>1. Init => EscrowInv
  BY InitHolds
<1>2. EscrowInv /\ [Next]_vars => EscrowInv'
  BY NextHolds
<1> QED  BY <1>1, <1>2, PTL DEF Spec

(* The escrow of a job is what its history explains, and recovery stops    *)
(* only for an assignment left without a verdict or a conflict in the      *)
(* terms, whatever the terms, the outcomes and the order of the waves      *)
(* (issue_settlement_aware_wave, settle_settlement_aware_escrow).          *)
THEOREM EscrowAccountedAlways == Spec => []EscrowAccounted
<1>1. EscrowInv => EscrowAccounted
  BY DEF EscrowInv, EscrowAccounted
<1> QED  BY <1>1, EscrowInvAlways, PTL

(* The owner's exposure stays within the hard cap from the first reserves  *)
(* a budget-aware policy issues, and the settlement-aware policy goes on   *)
(* wherever the tail-aware one would (the two activation decisions).       *)
THEOREM WithinHardCapAlways == Spec => []WithinHardCap
<1>1. EscrowInv => WithinHardCap
  <2> SUFFICES ASSUME EscrowInv, InHand, TailAware
               PROVE  /\ ReservesIssued # {} => CurrentExposure(ledger) <= HardCap(job)
                      /\ stage \in {"settle", "reconstitute", "decide", "close"} =>
                           committed = ledger.legacy
                      /\ (stage = "decide" /\ TailAwareDecision = "ACTIVATE") =>
                           SettlementAwareDecision = "ACTIVATE"
    BY DEF WithinHardCap
  <2>1. TermsOK /\ StateOK /\ LedgerExplained /\ Commitment /\ Capped
    BY DEF EscrowInv
  <2>2. /\ ReservesIssued # {} => CurrentExposure(ledger) <= HardCap(job)
        /\ stage \in {"settle", "reconstitute", "decide", "close"} => committed = ledger.legacy
    BY <2>1 DEF Capped, Commitment
  <2>3. ASSUME stage = "decide", TailAwareDecision = "ACTIVATE"
        PROVE  SettlementAwareDecision = "ACTIVATE"
    <3>1. /\ Candidates # <<>>
          /\ ~(committed + NetReservation(ToSet(Candidates)) > HardCap(job))
      BY <2>3, ActivatesWithin DEF TailAwareDecision
    <3> DEFINE next == ToSet(Candidates)
    <3>2. next \in SUBSET Offered
      <4>1. order \in Seq(Offered) /\ setup.batch \in Nat
        BY <2>1, Terms DEF TermsOK
      <4>2. FreeBatch(Candidates, Offered, order, Primary, Activated(job), Excluded)
        BY <4>1, BatchIsFree DEF Candidates
      <4> QED  BY <4>2 DEF FreeBatch, ToSet
    <3> HIDE DEF next
    <3>3. NetReservation(next) \in Int /\ HardCap(job) \in Nat
      BY <2>1, <2>3, <3>2, SetAmounts, CapIsNatural
    <3>4. CurrentExposure(ledger) \in Nat /\ ledger.expired \in Nat
      BY <2>1, LedgerNumbers
    <3>5. committed = CurrentExposure(ledger) + ledger.expired
      BY <2>1, <2>3 DEF Commitment, LedgerExplained, InHand
    <3>6. ~(committed + NetReservation(next) > HardCap(job))
      BY <3>1 DEF next
    <3>7. ~(CurrentExposure(ledger) + NetReservation(next) > HardCap(job))
      BY <3>3, <3>4, <3>5, <3>6
    <3> QED  BY <3>1, <3>7 DEF SettlementAwareDecision, Decision, next
  <2> QED  BY <2>2, <2>3
<1> QED  BY <1>1, EscrowInvAlways, PTL


-------------------------------------------------------------------------------
(* Counting compatible identities                                          *)

(* A mask of identities covers a job with a natural number of them.        *)
LEMMA CoverageType ==
  ASSUME NEW mask \in SUBSET Identities, NEW j \in Jobs
  PROVE  /\ IsFiniteSet(mask \cap Compatible(j))
         /\ Coverage(mask, j) \in Nat
<1>1. IsFiniteSet(mask \cap Compatible(j))
  BY IdentitiesAssumption, FS_Subset DEF Compatible
<1> QED BY <1>1, FS_CardinalityType DEF Coverage

(* A smaller mask covers no job better.                                    *)
LEMMA CoverageMonotone ==
  ASSUME NEW small \in SUBSET Identities, NEW large \in SUBSET Identities,
         small \subseteq large, NEW j \in Jobs
  PROVE  Coverage(small, j) <= Coverage(large, j)
<1>1. small \cap Compatible(j) \in SUBSET (large \cap Compatible(j))
  OBVIOUS
<1> QED BY <1>1, CoverageType, FS_Subset DEF Coverage

(* Taking one identity out of a mask costs a compatible job one, any other *)
(* job nothing.                                                            *)
LEMMA CoverageRemove ==
  ASSUME NEW mask \in SUBSET Identities, NEW i \in mask, NEW j \in Jobs
  PROVE  Coverage(mask \ {i}, j) =
           Coverage(mask, j) - (IF i \in Compatible(j) THEN 1 ELSE 0)
<1>1. (mask \ {i}) \cap Compatible(j) = (mask \cap Compatible(j)) \ {i}
  OBVIOUS
<1>2. Cardinality((mask \cap Compatible(j)) \ {i}) =
        IF i \in Compatible(j) THEN Coverage(mask, j) - 1 ELSE Coverage(mask, j)
  BY CoverageType, FS_RemoveElement DEF Coverage
<1>3. Coverage(mask, j) \in Nat
  BY CoverageType
<1> QED BY <1>1, <1>2, <1>3 DEF Coverage

-------------------------------------------------------------------------------
(* Open reports                                                            *)

(* Finitely many reports are open.                                         *)
LEMMA SlotsFinite ==
  ASSUME NEW count \in [Jobs -> Nat], NEW J \in SUBSET Jobs
  PROVE  /\ IsFiniteSet(Slots(count, J))
         /\ Cardinality(Slots(count, J)) \in Nat
<1> DEFINE rows == {{j} \X (1..count[j]) : j \in J}
           row == [j \in J |-> {j} \X (1..count[j])]
<1>1. IsFiniteSet(J)
  BY JobsAssumption, FS_Subset
<1>2. row \in Surjection(J, rows)
  BY DEF Surjection
<1>3. IsFiniteSet(rows)
  BY <1>1, <1>2, FS_Surjection
<1>4. ASSUME NEW r \in rows PROVE IsFiniteSet(r)
  <2>1. PICK j \in J : r = {j} \X (1..count[j])
    OBVIOUS
  <2>2. count[j] \in Int
    OBVIOUS
  <2>3. IsFiniteSet({j})
    BY FS_Singleton
  <2>4. IsFiniteSet(1..count[j])
    BY <2>2, FS_Interval
  <2> QED BY <2>1, <2>3, <2>4, FS_Product
<1>5. IsFiniteSet(UNION rows)
  BY <1>3, <1>4, FS_UNION
<1> QED BY <1>5, FS_CardinalityType DEF Slots

(* The open reports of one job alone.                                      *)
LEMMA SlotsOfOne ==
  ASSUME NEW count \in [Jobs -> Nat], NEW j \in Jobs
  PROVE  Cardinality(Slots(count, {j})) = count[j]
<1> DEFINE number == [k \in 1..count[j] |-> <<j, k>>]
           column == {j} \X (1..count[j])
<1>1. Slots(count, {j}) = {j} \X (1..count[j])
  BY DEF Slots
<1>2. number \in Injection(1..count[j], column)
  BY DEF Injection, IsInjective
<1>3. number \in Surjection(1..count[j], column)
  BY DEF Surjection
<1>4. ExistsBijection(1..count[j], column)
  BY <1>2, <1>3 DEF ExistsBijection, Bijection
<1>5. count[j] \in Nat
  OBVIOUS
<1>6. IsFiniteSet(1..count[j]) /\ Cardinality(1..count[j]) = count[j]
  BY <1>5, FS_Interval
<1> HIDE DEF column
<1>7. Cardinality(column) = count[j]
  BY <1>4, <1>6, FS_Bijection
<1> QED BY <1>1, <1>7 DEF column

(* The jobs together have at least as many open reports as one of them,    *)
(* and one more when another of them has an open report too.               *)
LEMMA SlotsBound ==
  ASSUME NEW count \in [Jobs -> Nat], NEW J \in SUBSET Jobs, NEW h \in J
  PROVE  /\ Cardinality(Slots(count, J)) >= count[h]
         /\ \A j \in J \ {h} : count[j] > 0 => Cardinality(Slots(count, J)) >= count[h] + 1
<1>1. Slots(count, {h}) \in SUBSET Slots(count, J)
  BY DEF Slots
<1>2. IsFiniteSet(Slots(count, J)) /\ Cardinality(Slots(count, J)) \in Nat
  BY SlotsFinite
<1>3. Cardinality(Slots(count, J)) >= count[h]
  BY <1>1, <1>2, FS_Subset, SlotsOfOne
<1>4. ASSUME NEW j \in J \ {h}, count[j] > 0
      PROVE  Cardinality(Slots(count, J)) >= count[h] + 1
  <2>1. <<j, 1>> \in Slots(count, J) /\ <<j, 1>> \notin Slots(count, {h})
    BY <1>4 DEF Slots
  <2>2. Slots(count, {h}) \cup {<<j, 1>>} \in SUBSET Slots(count, J)
    BY <1>1, <2>1
  <2>3. IsFiniteSet(Slots(count, {h}))
    BY SlotsFinite
  <2>4. Cardinality(Slots(count, {h})) = count[h]
    BY SlotsOfOne
  <2>5. Cardinality(Slots(count, {h}) \cup {<<j, 1>>}) = count[h] + 1
    BY <2>1, <2>3, <2>4, FS_AddElement
  <2> QED BY <2>2, <2>5, <1>2, FS_Subset
<1> QED BY <1>3, <1>4

(* Serving one open report of j leaves one report less.                    *)
LEMMA SlotsServe ==
  ASSUME NEW count \in [Jobs -> Nat], NEW J \in SUBSET Jobs, NEW j \in J, count[j] > 0
  PROVE  Cardinality(Slots([count EXCEPT ![j] = @ - 1], J)) = Cardinality(Slots(count, J)) - 1
<1> DEFINE less == [count EXCEPT ![j] = @ - 1]
<1>1. less \in [Jobs -> Nat]
  OBVIOUS
<1>2. Slots(less, J) = Slots(count, J) \ {<<j, count[j]>>}
  <2>1. ASSUME NEW s \in Slots(less, J) PROVE s \in Slots(count, J) \ {<<j, count[j]>>}
    <3>1. PICK h \in J : s \in {h} \X (1..less[h])
      BY DEF Slots
    <3>2. PICK k \in 1..less[h] : s = <<h, k>>
      BY <3>1
    <3>3. k \in 1..count[h] /\ ~(h = j /\ k = count[j])
      BY <3>2
    <3> QED BY <3>2, <3>3 DEF Slots
  <2>2. ASSUME NEW s \in Slots(count, J) \ {<<j, count[j]>>} PROVE s \in Slots(less, J)
    <3>1. PICK h \in J : s \in {h} \X (1..count[h])
      BY DEF Slots
    <3>2. PICK k \in 1..count[h] : s = <<h, k>>
      BY <3>1
    <3>3. k \in 1..less[h]
      BY <3>2, <2>2
    <3> QED BY <3>2, <3>3 DEF Slots
  <2> QED BY <2>1, <2>2
<1>3. <<j, count[j]>> \in Slots(count, J)
  BY DEF Slots
<1>4. IsFiniteSet(Slots(count, J))
  BY SlotsFinite
<1>5. Cardinality(Slots(count, J) \ {<<j, count[j]>>}) = Cardinality(Slots(count, J)) - 1
  BY <1>3, <1>4, FS_RemoveElement
<1> QED BY <1>2, <1>5

(* Reports lost to distinct failed identities are no more than those       *)
(* identities: count[j] is the number of identities j lost.                *)
LEMMA SlotsOfLost ==
  ASSUME NEW count \in [Jobs -> Nat], NEW J \in SUBSET Jobs,
         NEW failed, IsFiniteSet(failed),
         NEW lost \in [J -> SUBSET failed],
         \A j \in J : count[j] = Cardinality(lost[j]),
         \A j \in J : \A h \in J \ {j} : lost[j] \cap lost[h] = {}
  PROVE  Cardinality(Slots(count, J)) <= Cardinality(failed)
<1> DEFINE enum == [j \in J |-> CHOOSE f : f \in Bijection(1..count[j], lost[j])]
           blame == [s \in Slots(count, J) |-> enum[s[1]][s[2]]]
<1>1. ASSUME NEW j \in J PROVE enum[j] \in Bijection(1..count[j], lost[j])
  <2>1. IsFiniteSet(lost[j])
    BY FS_Subset
  <2>2. ExistsBijection(1..count[j], lost[j])
    BY <2>1, FS_CardinalityType
  <2> QED BY <2>2 DEF ExistsBijection
<1>2. ASSUME NEW s \in Slots(count, J)
      PROVE  s[1] \in J /\ s[2] \in 1..count[s[1]] /\ s = <<s[1], s[2]>>
  <2>1. PICK h \in J : s \in {h} \X (1..count[h])
    BY DEF Slots
  <2> QED BY <2>1
<1>3. ASSUME NEW s \in Slots(count, J) PROVE blame[s] \in lost[s[1]]
  BY <1>1, <1>2 DEF Bijection, Injection
<1>4. blame \in [Slots(count, J) -> failed]
  BY <1>2, <1>3
<1>5. ASSUME NEW s \in Slots(count, J), NEW t \in Slots(count, J), blame[s] = blame[t]
      PROVE  s = t
  <2>1. s[1] = t[1]
    <3>1. s[1] \in J /\ t[1] \in J /\ blame[s] \in lost[s[1]] /\ blame[s] \in lost[t[1]]
      BY <1>2, <1>3, <1>5
    <3> QED BY <3>1
  <2>2. enum[s[1]][s[2]] = enum[s[1]][t[2]]
    BY <1>5, <2>1
  <2>3. s[2] = t[2]
    <3>1. s[1] \in J /\ s[2] \in 1..count[s[1]] /\ t[2] \in 1..count[s[1]]
      BY <1>2, <2>1
    <3>2. enum[s[1]] \in Bijection(1..count[s[1]], lost[s[1]])
      BY <1>1, <3>1
    <3> HIDE DEF enum
    <3> QED BY <2>2, <3>1, <3>2 DEF Bijection, Injection, IsInjective
  <2> QED BY <1>2, <2>1, <2>3
<1>6. blame \in Injection(Slots(count, J), failed)
  BY <1>4, <1>5 DEF Injection, IsInjective
<1> QED BY <1>6, FS_Injection

(* Jobs with the same counts have the same open reports.                   *)
LEMMA SlotsSame ==
  ASSUME NEW f, NEW g, NEW J, \A j \in J : f[j] = g[j]
  PROVE  Slots(f, J) = Slots(g, J)
BY DEF Slots

-------------------------------------------------------------------------------
(* Facts of every state and step                                           *)

(* Values the code computes are natural numbers in every reachable state.  *)
LEMMA Naturals ==
  ASSUME TypeOK, ControlInv
  PROVE  /\ Remaining \in Nat
         /\ \A j \in Jobs : Deficit(j) \in Nat /\ game.need[j] \in Nat /\ passes[j] \in Nat
         /\ \A j \in Unresolved : Deficit(j) > 0
         /\ IsFiniteSet(Unresolved) /\ IsFiniteSet(Completed) /\ IsFiniteSet(guaranteed)
         /\ IsFiniteSet(OwedJobs)
         /\ Cardinality(Completed) \in Nat /\ Cardinality(guaranteed) \in Nat
         /\ Cardinality(OwedJobs) \in Nat
         /\ Count \in Nat
<1>1. game \in Games /\ game.need \in [Jobs -> Nat \ {0}] /\ game.allowance \in Nat
  BY GamesAssumption DEF TypeOK, PublicTypeOK
<1>2. passes \in [Jobs -> Nat] /\ failures \in Nat
  BY DEF TypeOK, PublicTypeOK
<1>3. Remaining \in Nat
  BY <1>1, <1>2 DEF Remaining, InScope
<1>4. \A j \in Jobs : Deficit(j) \in Nat /\ game.need[j] \in Nat /\ passes[j] \in Nat
  BY <1>1, <1>2 DEF Deficit, ControlInv
<1>5. \A j \in Unresolved : Deficit(j) > 0
  BY <1>1, <1>2 DEF Deficit, Unresolved
<1>6. /\ Unresolved \in SUBSET Jobs /\ Completed \in SUBSET Jobs
      /\ guaranteed \in SUBSET Jobs /\ OwedJobs \in SUBSET Jobs
  BY DEF Unresolved, Completed, OwedJobs, TypeOK
<1>7. /\ IsFiniteSet(Unresolved) /\ IsFiniteSet(Completed)
      /\ IsFiniteSet(guaranteed) /\ IsFiniteSet(OwedJobs)
  BY <1>6, JobsAssumption, FS_Subset
<1>8. /\ Cardinality(Completed) \in Nat /\ Cardinality(guaranteed) \in Nat
      /\ Cardinality(OwedJobs) \in Nat
  BY <1>7, FS_CardinalityType
<1> QED BY <1>3, <1>4, <1>5, <1>7, <1>8 DEF Count

(* A step that leaves the game and the public state alone leaves what is   *)
(* read off them alone.                                                    *)
LEMMA PublicUnchanged ==
  ASSUME UNCHANGED <<game, publicState>>
  PROVE  /\ game' = game /\ unused' = unused /\ passes' = passes
         /\ failures' = failures /\ attempts' = attempts /\ rounds' = rounds
         /\ Unresolved' = Unresolved /\ Completed' = Completed
         /\ InScope' = InScope /\ Remaining' = Remaining
         /\ \A j : Deficit(j)' = Deficit(j)
         /\ \A j : Compatible(j)' = Compatible(j)
         /\ PublicTypeOK' = PublicTypeOK
BY DEF publicState, Unresolved, Completed, InScope, Remaining, Deficit, Compatible, PublicTypeOK

(* The empty plan assigns nobody.                                          *)
LEMMA NobodyAssigned ==
  /\ NoPlan \in Plans
  /\ Assigned(NoPlan) = {}
  /\ WellPlanned(NoPlan)
  /\ \A j \in Jobs : Cardinality(NoPlan[j]) = 0
BY FS_EmptySet DEF NoPlan, Plans, Assigned, WellPlanned

(* Entering _construct establishes what its loop maintains.                *)
LEMMA ConstructStarts ==
  ASSUME TypeOK, ControlInv, NEW J \in SUBSET Unresolved, StartConstruct(J),
         UNCHANGED <<game, publicState>>
  PROVE  /\ step' = "check"
         /\ pending' \in [Jobs -> Nat] /\ avail' \in SUBSET Identities /\ trial' \in Plans
         /\ WellPlanned(trial)'
         /\ avail' = unused' \ Assigned(trial')
         /\ \A j \in Jobs :
              pending'[j] + Cardinality(trial'[j]) = IF j \in J THEN Deficit(j)' ELSE 0
<1>1. /\ step' = "check" /\ avail' = unused /\ trial' = NoPlan
      /\ pending' = [j \in Jobs |-> IF j \in J THEN Deficit(j) ELSE 0]
  BY DEF StartConstruct
<1>2. \A j \in Jobs : Deficit(j) \in Nat /\ Deficit(j)' = Deficit(j)
  BY Naturals, PublicUnchanged
<1>3. pending' \in [Jobs -> Nat]
  BY <1>1, <1>2
<1>4. avail' \in SUBSET Identities /\ trial' \in Plans
  BY <1>1, NobodyAssigned DEF TypeOK, PublicTypeOK
<1>5. WellPlanned(trial)'
  BY <1>1 DEF WellPlanned, NoPlan
<1>6. avail' = unused' \ Assigned(trial')
  BY <1>1, NobodyAssigned, PublicUnchanged
<1>7. \A j \in Jobs :
        pending'[j] + Cardinality(trial'[j]) = IF j \in J THEN Deficit(j)' ELSE 0
  BY <1>1, <1>2, NobodyAssigned
<1> QED BY <1>1, <1>3, <1>4, <1>5, <1>6, <1>7

-------------------------------------------------------------------------------
(* Every step preserves the invariant                                      *)

LEMMA InitIInv == CoverInit => IInv
<1> SUFFICES ASSUME CoverInit PROVE IInv
  OBVIOUS
<1> USE DEF CoverInit, PublicInit
<1>1. game.need \in [Jobs -> Nat \ {0}] /\ game.allowance \in Nat
  BY GamesAssumption
<1>2. TypeOK
  BY NobodyAssigned DEF TypeOK, PublicTypeOK, Phases, Steps
<1>3. AssertionsHold /\ TrialInv /\ BaseInv /\ PlanInv
  BY DEF AssertionsHold, AssertionErrors, Building, TrialInv, BaseInv, PlanInv
<1>4. ControlInv
  BY <1>1 DEF ControlInv, Building
<1>5. OwedJobs = {}
  BY DEF OwedJobs
<1>6. OwedJobsRecertifiable
  BY <1>5 DEF OwedJobsRecertifiable
<1>7. /\ Cardinality(Completed) \in Nat /\ Cardinality(OwedJobs) \in Nat
  BY <1>2, <1>4, Naturals
<1>8. PromiseInv /\ RoundsBounded
  BY <1>7 DEF PromiseInv, RoundsBounded, NoCount, InScope
<1> QED BY <1>2, <1>3, <1>4, <1>6, <1>8 DEF IInv

LEMMA StartRoundIInv == ASSUME IInv, StartRound PROVE IInv'
<1> USE DEF IInv
<1>1. /\ UNCHANGED <<game, publicState>> /\ phase = "idle" /\ phase' = "base"
      /\ base' = base /\ promised' = promised /\ root' = root
      /\ extra' = {} /\ todo' = {} /\ cand' = {} /\ plan' = NoPlan
      /\ guaranteed' = (IF InScope THEN base ELSE {}) \cap Unresolved
      /\ StartConstruct(guaranteed')
  BY DEF StartRound, memory
<1>2. guaranteed' \in SUBSET Unresolved /\ Unresolved \in SUBSET Jobs
  BY <1>1 DEF Unresolved
<1>3. /\ step' = "check"
      /\ pending' \in [Jobs -> Nat] /\ avail' \in SUBSET Identities /\ trial' \in Plans
      /\ WellPlanned(trial)'
      /\ avail' = unused' \ Assigned(trial')
      /\ \A j \in Jobs :
           pending'[j] + Cardinality(trial'[j]) = IF j \in guaranteed' THEN Deficit(j)' ELSE 0
  BY <1>1, <1>2, ConstructStarts
<1>4. TypeOK'
  BY <1>1, <1>2, <1>3, NobodyAssigned, PublicUnchanged DEF TypeOK, Phases, Building, Steps
<1>5. AssertionsHold'
  BY <1>1 DEF AssertionsHold, AssertionErrors
<1>6. ControlInv'
  <2>1. \A j \in Jobs : passes'[j] <= game'.need[j]
    BY <1>1, PublicUnchanged DEF ControlInv
  <2> QED BY <2>1, <1>1, <1>2, <1>3, PublicUnchanged DEF ControlInv
<1>7. TrialJobs' = guaranteed'
  BY <1>1 DEF TrialJobs
<1>8. TrialInv'
  BY <1>3, <1>7 DEF TrialInv, Assigned
<1>9. BaseInv'
  <2>1. CASE ~InScope
    BY <1>1, <2>1, PublicUnchanged DEF BaseInv
  <2>2. CASE InScope
    <3>1. guaranteed' = OwedJobs /\ avail' = unused
      BY <1>1, <2>2 DEF OwedJobs, StartConstruct
    <3>2. \A j \in OwedJobs : pending'[j] = [h \in Jobs |-> Deficit(h)][j]
      BY <1>1, <3>1 DEF StartConstruct, OwedJobs, Unresolved
    <3>3. Slots(pending', OwedJobs) = OwedReports
      BY <3>2, SlotsSame DEF OwedReports
    <3>4. \A j \in OwedJobs :
            Coverage(unused, j) >= Remaining + Cardinality(OwedReports)
      BY <1>1, <2>2 DEF OwedJobsRecertifiable, InScope, Remaining
    <3>5. \A j \in OwedJobs : Coverage(avail, j)' = Coverage(unused, j)
      BY <1>1, <3>1, PublicUnchanged DEF Coverage
    <3>6. Slots(pending, guaranteed)' = OwedReports
      BY <3>1, <3>3 DEF Slots
    <3> QED BY <2>2, <3>1, <3>4, <3>5, <3>6, <1>1, PublicUnchanged DEF BaseInv
  <2> QED BY <2>1, <2>2
<1>10. PlanInv' /\ OwedJobsRecertifiable'
  BY <1>1 DEF PlanInv, OwedJobsRecertifiable
<1>11. PromiseInv'
  <2>1. InScope => guaranteed' = OwedJobs
    BY <1>1 DEF OwedJobs
  <2>2. OwedJobs' = OwedJobs
    BY <1>1, PublicUnchanged DEF OwedJobs
  <2>3. InScope => Count' >= promised
    BY <1>1, <2>1, PublicUnchanged DEF PromiseInv, Count
  <2> QED BY <1>1, <2>1, <2>2, <2>3, PublicUnchanged DEF PromiseInv
<1>12. RoundsBounded'
  BY <1>1, PublicUnchanged DEF RoundsBounded
<1> QED BY <1>4, <1>5, <1>6, <1>8, <1>9, <1>10, <1>11, <1>12

LEMMA StopRoundsIInv == ASSUME IInv, StopRounds PROVE IInv'
<1> USE DEF IInv
<1>1. /\ UNCHANGED <<game, publicState>> /\ phase = "idle" /\ phase' = "done"
      /\ UNCHANGED <<base, promised, root, step, guaranteed, extra, todo, cand, plan,
                     pending, avail, trial>>
      /\ rounds >= MaxRounds \/ Unresolved = {}
  BY DEF StopRounds, memory, construction
<1>2. TypeOK'
  BY <1>1, PublicUnchanged DEF TypeOK, Phases
<1>3. AssertionsHold' /\ TrialInv' /\ BaseInv' /\ PlanInv' /\ OwedJobsRecertifiable'
  BY <1>1 DEF AssertionsHold, AssertionErrors, TrialInv, BaseInv, PlanInv,
              OwedJobsRecertifiable, Building
<1>4. ControlInv'
  BY <1>1, PublicUnchanged DEF ControlInv, Building
<1>5. PromiseInv'
  <2>1. Unresolved = {} => Cardinality(OwedJobs) = 0
    BY FS_EmptySet DEF OwedJobs
  <2>2. /\ Cardinality(Completed) \in Nat /\ Cardinality(OwedJobs) \in Nat
        /\ promised \in Int
    BY Naturals DEF TypeOK, NoCount
  <2>3. InScope => Cardinality(Completed) >= promised \/ (rounds >= MaxRounds /\ Unresolved # {})
    BY <1>1, <2>1, <2>2 DEF PromiseInv
  <2> QED BY <1>1, <2>3, PublicUnchanged DEF PromiseInv
<1>6. RoundsBounded'
  BY <1>1, PublicUnchanged DEF RoundsBounded
<1> QED BY <1>2, <1>3, <1>4, <1>5, <1>6

(* The check before the loop: nothing but the loop position changes, and   *)
(* the check is what the loop then maintains.                              *)
LEMMA CheckIInv == ASSUME IInv, Check PROVE IInv'
<1> USE DEF IInv
<1>1. /\ UNCHANGED <<game, publicState>> /\ phase \in Building /\ step = "check" /\ step' = "pick"
      /\ UNCHANGED <<base, promised, root, phase, guaranteed, extra, todo, cand, plan,
                     pending, avail, trial>>
      /\ Fits
  BY DEF Check, memory, construction
<1>2. TypeOK'
  BY <1>1, PublicUnchanged DEF TypeOK, Steps
<1>3. AssertionsHold' /\ OwedJobsRecertifiable'
  BY <1>1 DEF AssertionsHold, OwedJobsRecertifiable, Building
<1>4. ControlInv'
  BY <1>1, PublicUnchanged DEF ControlInv, Building, Count
<1>5. TrialJobs' = TrialJobs /\ TrialReserve' = TrialReserve
  BY <1>1 DEF TrialJobs, TrialReserve
<1>6. \A j : Coverage(avail, j)' = Coverage(avail, j)
  BY <1>1, PublicUnchanged DEF Coverage
<1>7. Fits'
  BY <1>1, <1>5, <1>6, PublicUnchanged DEF Fits, Slack
<1>8. WellPlanned(trial)' = WellPlanned(trial) /\ WellPlanned(plan)' = WellPlanned(plan)
  BY <1>1, PublicUnchanged DEF WellPlanned
<1>9. TrialInv'
  BY <1>1, <1>5, <1>7, <1>8, PublicUnchanged DEF TrialInv, Assigned
<1>10. BaseInv'
  BY <1>1, <1>6, PublicUnchanged DEF BaseInv, Slots
<1>11. PlanInv'
  BY <1>1, <1>8, PublicUnchanged DEF PlanInv, ReserveKept, Assigned, Coverage
<1>12. PromiseInv' /\ RoundsBounded'
  BY <1>1, PublicUnchanged DEF PromiseInv, RoundsBounded, Count, OwedJobs
<1> QED BY <1>2, <1>3, <1>4, <1>9, <1>10, <1>11, <1>12

(* One identity moves from the available ones to the tightest open job:    *)
(* the job's slack is unchanged, every other affected slack was positive.  *)
LEMMA PickIInv == ASSUME IInv, Pick PROVE IInv'
<1> USE DEF IInv
<1>1. /\ UNCHANGED <<game, publicState>> /\ phase \in Building /\ step = "pick"
      /\ UNCHANGED <<base, promised, root, phase, step, guaranteed, extra, todo, cand, plan>>
  BY DEF Pick, memory
<1>a. PICK j \in Tightest : \E i \in Best(j) :
        /\ avail' = avail \ {i}
        /\ trial' = [trial EXCEPT ![j] = @ \cup {i}]
        /\ pending' = [pending EXCEPT ![j] = @ - 1]
  BY DEF Pick
<1>2. PICK i \in Best(j) :
        /\ avail' = avail \ {i}
        /\ trial' = [trial EXCEPT ![j] = @ \cup {i}]
        /\ pending' = [pending EXCEPT ![j] = @ - 1]
  BY <1>a
<1>3. j \in TrialJobs /\ j \in Jobs /\ pending[j] > 0
  BY <1>1 DEF Tightest, Open, TrialJobs, TypeOK
<1>4. i \in avail /\ i \in Compatible(j) /\ i \in Identities
      /\ \A h \in Affected(i, j) : Slack(h) > 0
  BY DEF Best, EligibleFor, TypeOK
<1>5. /\ pending \in [Jobs -> Nat] /\ avail \in SUBSET Identities /\ trial \in Plans
      /\ TrialJobs \in SUBSET Jobs
  BY DEF TypeOK, TrialJobs
<1>6. /\ pending' \in [Jobs -> Nat] /\ avail' \in SUBSET Identities /\ trial' \in Plans
  BY <1>2, <1>3, <1>4, <1>5 DEF Plans
<1>7. TypeOK'
  BY <1>1, <1>6, PublicUnchanged DEF TypeOK
<1>8. AssertionsHold' /\ OwedJobsRecertifiable'
  BY <1>1 DEF AssertionsHold, OwedJobsRecertifiable, Building
<1>9. ControlInv'
  BY <1>1, PublicUnchanged DEF ControlInv, Building, Count
<1>10. TrialJobs' = TrialJobs /\ TrialReserve' = TrialReserve
  BY <1>1 DEF TrialJobs, TrialReserve
<1>11. /\ WellPlanned(trial) /\ avail = unused \ Assigned(trial) /\ Fits
       /\ \A h \in Jobs :
            pending[h] + Cardinality(trial[h]) = IF h \in TrialJobs THEN Deficit(h) ELSE 0
  BY <1>1 DEF TrialInv
<1>12. \A h \in Jobs : i \notin trial[h]
  BY <1>4, <1>11 DEF Assigned
<1>13. WellPlanned(trial)'
  <2>1. \A h \in Jobs : trial'[h] = IF h = j THEN trial[j] \cup {i} ELSE trial[h]
    BY <1>2, <1>3, <1>5 DEF Plans
  <2>2. \A h \in Jobs : trial'[h] \subseteq unused' \cap Compatible(h)'
    BY <1>1, <1>4, <1>11, <2>1, PublicUnchanged DEF WellPlanned
  <2>3. \A h \in Jobs : \A g \in Jobs \ {h} : trial'[h] \cap trial'[g] = {}
    BY <1>11, <1>12, <2>1 DEF WellPlanned
  <2> QED BY <2>2, <2>3 DEF WellPlanned
<1>14. avail' = unused' \ Assigned(trial')
  <2>1. Assigned(trial') = Assigned(trial) \cup {i}
    BY <1>2, <1>3, <1>5 DEF Assigned, Plans
  <2> QED BY <1>1, <1>2, <1>11, <2>1, PublicUnchanged
<1>15. \A h \in Jobs :
         pending'[h] + Cardinality(trial'[h]) = IF h \in TrialJobs THEN Deficit(h) ELSE 0
  <2>1. IsFiniteSet(trial[j])
    BY <1>3, <1>5, IdentitiesAssumption, FS_Subset DEF Plans
  <2>2. Cardinality(trial[j] \cup {i}) = Cardinality(trial[j]) + 1 /\ Cardinality(trial[j]) \in Nat
    BY <1>3, <1>12, <2>1, FS_AddElement, FS_CardinalityType
  <2>3. trial'[j] = trial[j] \cup {i} /\ pending'[j] = pending[j] - 1
    BY <1>2, <1>3, <1>5 DEF Plans
  <2>4. \A h \in Jobs \ {j} : trial'[h] = trial[h] /\ pending'[h] = pending[h]
    BY <1>2, <1>5 DEF Plans
  <2>5. pending[j] \in Nat /\ pending[j] + Cardinality(trial[j]) = Deficit(j)
    BY <1>3, <1>5, <1>11
  <2>6. pending'[j] + Cardinality(trial'[j]) = Deficit(j)
    BY <2>2, <2>3, <2>5
  <2> QED BY <1>3, <1>11, <2>4, <2>6
<1>16. \A h \in Jobs : Coverage(avail', h) =
         Coverage(avail, h) - (IF i \in Compatible(h) THEN 1 ELSE 0)
  BY <1>2, <1>4, <1>5, CoverageRemove
<1>17. \A h \in Jobs : Coverage(avail, h)' = Coverage(avail', h)
  BY <1>1, PublicUnchanged DEF Coverage
<1>18. \A h \in Jobs : Coverage(avail, h) \in Nat
  BY <1>5, CoverageType
<1>19. Remaining \in Nat
  BY Naturals
<1>20. Fits'
  <2>1. SUFFICES ASSUME NEW h \in TrialJobs PROVE Slack(h)' >= 0
    BY <1>10 DEF Fits
  <2>2. h \in Jobs /\ pending[h] \in Nat
    BY <1>5
  <2> DEFINE kept == IF h \in TrialReserve THEN Remaining ELSE 0
  <2>4. kept \in Nat
    BY <1>19
  <2>5. Slack(h) = Coverage(avail, h) - pending[h] - kept /\ Slack(h) >= 0
    BY <1>11 DEF Slack, Fits
  <2>6. Slack(h)' = Coverage(avail', h) - pending'[h] - kept
    BY <1>1, <1>10, <1>17, <2>2, PublicUnchanged DEF Slack
  <2> HIDE DEF kept
  <2>7. CASE h = j
    <3>1. pending'[h] = pending[h] - 1 /\ Coverage(avail', h) = Coverage(avail, h) - 1
      BY <1>2, <1>4, <1>5, <1>16, <2>2, <2>7
    <3> QED BY <1>18, <2>2, <2>4, <2>5, <2>6, <3>1
  <2>8. CASE h # j /\ i \in Compatible(h)
    <3>1. pending'[h] = pending[h] /\ Coverage(avail', h) = Coverage(avail, h) - 1
      BY <1>2, <1>5, <1>16, <2>2, <2>8
    <3>2. h \in Affected(i, j)
      BY <2>8 DEF Affected, Compatible
    <3>3. Slack(h) > 0
      BY <1>4, <3>2
    <3> QED BY <1>18, <2>2, <2>4, <2>5, <2>6, <3>1, <3>3
  <2>9. CASE h # j /\ i \notin Compatible(h)
    <3>1. pending'[h] = pending[h]
      BY <1>2, <1>5, <2>2, <2>9
    <3>2. Coverage(avail', h) = Coverage(avail, h) - 0
      BY <1>16, <2>2, <2>9
    <3> QED BY <1>18, <2>2, <2>4, <2>5, <2>6, <3>1, <3>2
  <2> QED BY <2>7, <2>8, <2>9
<1>21. TrialInv'
  BY <1>1, <1>10, <1>13, <1>14, <1>15, <1>20, PublicUnchanged DEF TrialInv, Assigned
<1>22. BaseInv'
  <2>1. CASE phase # "base"
    BY <1>1, <2>1 DEF BaseInv
  <2>2. CASE phase = "base" /\ ~InScope
    BY <1>1, <2>2, PublicUnchanged DEF BaseInv
  <2>3. CASE phase = "base" /\ InScope
    <3>1. TrialJobs = guaranteed
      BY <2>3 DEF ControlInv, TrialJobs
    <3>2. Cardinality(Slots(pending', guaranteed)) = Cardinality(Slots(pending, guaranteed)) - 1
      BY <1>2, <1>3, <1>5, <3>1, SlotsServe
    <3>3. Cardinality(Slots(pending, guaranteed)) \in Nat
      BY <1>5, <3>1, SlotsFinite
    <3>4. \A h \in guaranteed : Coverage(avail, h) >= Remaining + Cardinality(Slots(pending, guaranteed))
      BY <2>3 DEF BaseInv
    <3>5. \A h \in guaranteed : Coverage(avail', h) >= Remaining + Cardinality(Slots(pending', guaranteed))
      BY <1>5, <1>16, <1>18, <1>19, <3>1, <3>2, <3>3, <3>4
    <3>6. Slots(pending, guaranteed)' = Slots(pending', guaranteed)
      BY <1>1 DEF Slots
    <3> QED BY <1>1, <1>5, <1>17, <2>3, <3>1, <3>5, <3>6, PublicUnchanged DEF BaseInv
  <2> QED BY <2>1, <2>2, <2>3
<1>23. PlanInv'
  BY <1>1, PublicUnchanged DEF PlanInv, WellPlanned, ReserveKept, Assigned, Coverage
<1>24. PromiseInv' /\ RoundsBounded'
  BY <1>1, PublicUnchanged DEF PromiseInv, RoundsBounded, Count, OwedJobs
<1> QED BY <1>7, <1>8, <1>9, <1>21, <1>22, <1>23, <1>24

(* Accepting a finished plan: nothing is pending, so every slack is what   *)
(* stays available beyond the reserve.                                     *)
LEMMA AcceptIInv == ASSUME IInv, Accept PROVE IInv'
<1> USE DEF IInv
<1>1. /\ UNCHANGED <<game, publicState>> /\ phase \in Building /\ step = "pick" /\ Open = {}
      /\ UNCHANGED <<base, promised, root, pending, avail, trial>>
      /\ plan' = trial /\ cand' = {} /\ step' = "next"
      /\ guaranteed' = IF phase = "grow" THEN guaranteed \cup cand ELSE guaranteed
      /\ extra' = IF phase = "extra" THEN extra \cup cand ELSE extra
      /\ phase' = IF phase = "base" THEN "grow" ELSE phase
      /\ todo' = IF phase = "base" THEN Unresolved \ guaranteed ELSE todo
  BY DEF Accept, memory, construction
<1>2. phase' \in {"grow", "extra"}
  BY <1>1 DEF Building
<1>3. TypeOK'
  BY <1>1, <1>2, PublicUnchanged DEF TypeOK, Phases, Building, Steps, Unresolved
<1>4. AssertionsHold' /\ TrialInv' /\ BaseInv' /\ OwedJobsRecertifiable'
  BY <1>1, <1>2 DEF AssertionsHold, AssertionErrors, TrialInv, BaseInv, OwedJobsRecertifiable
<1>5. guaranteed' \cup extra' = TrialJobs
  BY <1>1 DEF TrialJobs, ControlInv, Building
<1>6. ControlInv'
  BY <1>1, <1>2, <1>5, PublicUnchanged DEF ControlInv, Building, Count, TrialJobs
<1>7. PlanInv'
  <2>1. /\ WellPlanned(trial) /\ avail = unused \ Assigned(trial) /\ Fits
        /\ \A h \in Jobs :
             pending[h] + Cardinality(trial[h]) = IF h \in TrialJobs THEN Deficit(h) ELSE 0
    BY <1>1 DEF TrialInv
  <2>2. pending \in [Jobs -> Nat] /\ TrialJobs \in SUBSET Jobs /\ avail \in SUBSET Identities
    BY DEF TypeOK, TrialJobs
  <2>3. \A h \in Jobs : IsFiniteSet(trial[h]) /\ Cardinality(trial[h]) \in Nat
    BY IdentitiesAssumption, FS_Subset, FS_CardinalityType DEF TypeOK, Plans
  <2>4. \A h \in Jobs : Deficit(h) \in Nat
    BY Naturals
  <2>5. \A h \in TrialJobs : pending[h] = 0
    BY <1>1, <2>2 DEF Open
  <2>6. \A h \in Jobs : Cardinality(trial[h]) = IF h \in TrialJobs THEN Deficit(h) ELSE 0
    BY <2>1, <2>2, <2>3, <2>4, <2>5
  <2>7. guaranteed' \subseteq TrialReserve /\ guaranteed' \subseteq TrialJobs
    BY <1>1, <1>5 DEF TrialReserve, TrialJobs
  <2>8. \A h \in guaranteed' : Coverage(avail, h) >= Remaining
    <3>1. SUFFICES ASSUME NEW h \in guaranteed' PROVE Coverage(avail, h) >= Remaining
      OBVIOUS
    <3>2. h \in TrialJobs /\ h \in Jobs /\ h \in TrialReserve
      BY <2>2, <2>7
    <3>3. Slack(h) >= 0 /\ pending[h] = 0
      BY <2>1, <2>5, <3>2 DEF Fits
    <3>4. Coverage(avail, h) \in Nat /\ Remaining \in Nat
      BY <2>2, <3>2, CoverageType, Naturals
    <3>5. Slack(h) = Coverage(avail, h) - 0 - Remaining
      BY <3>2, <3>3 DEF Slack
    <3> QED BY <3>3, <3>4, <3>5
  <2>9. WellPlanned(plan)'
    BY <1>1, <2>1, PublicUnchanged DEF WellPlanned
  <2>10. ReserveKept(unused \ Assigned(plan))'
    <3>1. unused' \ Assigned(plan') = avail
      BY <1>1, <2>1, PublicUnchanged
    <3> QED BY <2>8, <3>1, PublicUnchanged, <1>1 DEF ReserveKept, Coverage, Assigned
  <2> QED BY <1>1, <1>5, <2>6, <2>9, <2>10, PublicUnchanged DEF PlanInv
<1>8. PromiseInv'
  <2>1. guaranteed \subseteq guaranteed'
    BY <1>1
  <2>2. IsFiniteSet(guaranteed')
    BY <1>3, JobsAssumption, FS_Subset DEF TypeOK
  <2>3. Cardinality(guaranteed') >= Cardinality(guaranteed)
    BY <2>1, <2>2, FS_Subset
  <2>4. Cardinality(guaranteed') \in Nat /\ Cardinality(guaranteed) \in Nat
        /\ Cardinality(Completed) \in Nat
    BY <2>2, FS_CardinalityType, Naturals
  <2>5. Count' >= Count /\ Count' \in Nat /\ Count \in Nat
    BY <1>1, <2>3, <2>4, PublicUnchanged DEF Count
  <2>6. promised \in Int /\ OwedJobs' = OwedJobs
    BY <1>1, PublicUnchanged DEF TypeOK, NoCount, OwedJobs
  <2>7. InScope /\ phase' = "grow" => Count' >= promised /\ OwedJobs' \subseteq guaranteed'
    BY <1>1, <2>1, <2>5, <2>6 DEF PromiseInv, Building
  <2> QED BY <1>1, <1>2, <2>7, PublicUnchanged DEF PromiseInv
<1>9. RoundsBounded'
  BY <1>1, PublicUnchanged DEF RoundsBounded
<1> QED BY <1>3, <1>4, <1>6, <1>7, <1>8, <1>9

(* The greedy loop never fails for the base: each owed job keeps more      *)
(* compatible identities than all open reports and failures together, so   *)
(* an identity can be found and takes no other job below its reserve.      *)
LEMMA BaseConstructs == ASSUME IInv, phase = "base" PROVE ~ConstructFails
<1> USE DEF IInv
<1>1. TrialJobs = guaranteed /\ TrialReserve = guaranteed
  BY DEF ControlInv, TrialJobs, TrialReserve
<1>2. /\ pending \in [Jobs -> Nat] /\ guaranteed \in SUBSET Jobs /\ avail \in SUBSET Identities
      /\ Remaining \in Nat /\ Cardinality(Slots(pending, guaranteed)) \in Nat
  BY Naturals, SlotsFinite DEF TypeOK
<1>3. \A h \in guaranteed : Coverage(avail, h) \in Nat
  BY <1>2, CoverageType
<1>4. \A h \in guaranteed :
        Coverage(avail, h) >= Remaining + Cardinality(Slots(pending, guaranteed))
  BY DEF BaseInv
<1>5. \A h \in guaranteed :
        /\ Cardinality(Slots(pending, guaranteed)) >= pending[h]
        /\ \A j \in guaranteed \ {h} :
             pending[j] > 0 => Cardinality(Slots(pending, guaranteed)) >= pending[h] + 1
  BY <1>2, SlotsBound
<1>6. \A h \in guaranteed : Slack(h) = Coverage(avail, h) - pending[h] - Remaining
  BY <1>1 DEF Slack
<1>7. Fits
  <2>1. SUFFICES ASSUME NEW h \in guaranteed PROVE Slack(h) >= 0
    BY <1>1 DEF Fits
  <2>2. pending[h] \in Nat
    BY <1>2
  <2> QED BY <1>2, <1>3, <1>4, <1>5, <1>6, <2>2
<1>8. ASSUME NEW j \in Tightest PROVE EligibleFor(j) # {}
  <2>1. j \in guaranteed /\ j \in Jobs /\ pending[j] > 0 /\ pending[j] \in Nat
    BY <1>1, <1>2 DEF Tightest, Open
  <2>2. Coverage(avail, j) > 0
    BY <1>2, <1>3, <1>4, <1>5, <2>1
  <2>3. avail \cap Compatible(j) # {}
    BY <2>2, FS_EmptySet DEF Coverage
  <2>4. PICK i \in avail : i \in Compatible(j)
    BY <2>3
  <2>5. ASSUME NEW h \in Affected(i, j) PROVE Slack(h) > 0
    <3>1. h \in guaranteed /\ j \in guaranteed \ {h}
      BY <1>1, <2>1 DEF Affected
    <3>2. pending[h] \in Nat /\ Cardinality(Slots(pending, guaranteed)) >= pending[h] + 1
      BY <1>2, <1>5, <2>1, <3>1
    <3> QED BY <1>2, <1>3, <1>4, <1>6, <3>1, <3>2
  <2> QED BY <2>4, <2>5 DEF EligibleFor
<1> QED BY <1>7, <1>8 DEF ConstructFails

LEMMA RejectIInv == ASSUME IInv, Reject PROVE IInv'
<1> USE DEF IInv
<1>1. phase # "base"
  BY BaseConstructs DEF Reject
<1>2. /\ UNCHANGED <<game, publicState>> /\ phase \in {"grow", "extra"}
      /\ UNCHANGED <<base, promised, root, phase, guaranteed, extra, todo, plan,
                     pending, avail, trial>>
      /\ step' = "next" /\ cand' = {}
  BY <1>1 DEF Reject, memory, construction, Building
<1>3. TypeOK'
  BY <1>2, PublicUnchanged DEF TypeOK, Steps
<1>4. AssertionsHold' /\ TrialInv' /\ BaseInv' /\ OwedJobsRecertifiable'
  BY <1>2 DEF AssertionsHold, AssertionErrors, TrialInv, BaseInv, OwedJobsRecertifiable
<1>5. ControlInv'
  BY <1>2, PublicUnchanged DEF ControlInv, Building, Count
<1>6. PlanInv'
  BY <1>2, PublicUnchanged DEF PlanInv, WellPlanned, ReserveKept, Assigned, Coverage
<1>7. PromiseInv' /\ RoundsBounded'
  BY <1>2, PublicUnchanged DEF PromiseInv, RoundsBounded, Count, OwedJobs
<1> QED BY <1>3, <1>4, <1>5, <1>6, <1>7

(* Trying a candidate starts the loop for it and the jobs served so far.   *)
LEMMA TryNextIInv == ASSUME IInv, TryNext PROVE IInv'
<1> USE DEF IInv
<1>1. /\ UNCHANGED <<game, publicState>> /\ phase \in {"grow", "extra"} /\ step = "next"
      /\ UNCHANGED <<base, promised, root, phase, guaranteed, extra, plan>>
  BY DEF TryNext, memory
<1>2. PICK j \in Foremost(todo) :
        /\ cand' = {j} /\ todo' = todo \ {j} /\ StartConstruct(TrialJobs \cup {j})
  BY DEF TryNext
<1>3. cand = {} /\ j \in todo
  BY <1>1, <1>2 DEF ControlInv, Foremost
<1>4. TrialJobs \cup {j} \in SUBSET Unresolved
  BY <1>1, <1>3 DEF ControlInv, TrialJobs, Building
<1>5. /\ step' = "check"
      /\ pending' \in [Jobs -> Nat] /\ avail' \in SUBSET Identities /\ trial' \in Plans
      /\ WellPlanned(trial)'
      /\ avail' = unused' \ Assigned(trial')
      /\ \A h \in Jobs : pending'[h] + Cardinality(trial'[h]) =
                           IF h \in TrialJobs \cup {j} THEN Deficit(h)' ELSE 0
  BY <1>1, <1>2, <1>4, ConstructStarts
<1>6. TypeOK'
  BY <1>1, <1>2, <1>3, <1>5, PublicUnchanged DEF TypeOK, Steps
<1>7. AssertionsHold' /\ BaseInv' /\ OwedJobsRecertifiable'
  BY <1>1 DEF AssertionsHold, AssertionErrors, BaseInv, OwedJobsRecertifiable
<1>8. ControlInv'
  BY <1>1, <1>2, <1>3, <1>5, PublicUnchanged DEF ControlInv, Building, Count
<1>9. TrialJobs' = TrialJobs \cup {j}
  BY <1>1, <1>2, <1>3 DEF TrialJobs
<1>10. TrialInv'
  BY <1>5, <1>9 DEF TrialInv, Assigned
<1>11. PlanInv'
  BY <1>1, PublicUnchanged DEF PlanInv, WellPlanned, ReserveKept, Assigned, Coverage
<1>12. PromiseInv' /\ RoundsBounded'
  BY <1>1, PublicUnchanged DEF PromiseInv, RoundsBounded, Count, OwedJobs
<1> QED BY <1>6, <1>7, <1>8, <1>10, <1>11, <1>12

(* The count to remember is never below the one remembered.                *)
LEMMA CertifiedIInv == ASSUME IInv, Certified PROVE IInv'
<1> USE DEF IInv
<1>1. /\ UNCHANGED <<game, publicState>> /\ phase = "grow" /\ step = "next"
      /\ UNCHANGED <<step, guaranteed, extra, cand, plan, pending, avail, trial>>
  BY DEF Certified, construction
<1>2. /\ Count \in Nat /\ promised \in Int
      /\ InScope => Count >= promised
  BY <1>1, Naturals DEF PromiseInv, TypeOK, NoCount
<1>3. /\ phase' = "extra" /\ base' = guaranteed /\ promised' = Count
      /\ root' = IF root = NoCount THEN Count ELSE root
      /\ todo' = Unresolved \ guaranteed
  <2>1. ~(InScope /\ promised # NoCount /\ Count < promised)
    BY <1>2
  <2> QED BY <2>1, Zenon DEF Certified
<1>4. TypeOK'
  BY <1>1, <1>2, <1>3, PublicUnchanged DEF TypeOK, Phases, Building, Unresolved
<1>5. Count' = Count
  BY <1>1, PublicUnchanged DEF Count
<1>6. AssertionsHold' /\ TrialInv' /\ BaseInv' /\ OwedJobsRecertifiable'
  BY <1>1, <1>3 DEF AssertionsHold, AssertionErrors, TrialInv, BaseInv, OwedJobsRecertifiable
<1>7. ControlInv'
  BY <1>1, <1>3, <1>5, PublicUnchanged DEF ControlInv, Building
<1>8. PlanInv'
  BY <1>1, <1>3, PublicUnchanged DEF PlanInv, WellPlanned, ReserveKept, Assigned, Coverage
<1>9. PromiseInv'
  <2>1. promised' # NoCount /\ root' # NoCount
    BY <1>2, <1>3 DEF NoCount
  <2>2. InScope => root' <= promised'
    BY <1>2, <1>3 DEF PromiseInv, TypeOK, NoCount
  <2> QED BY <1>3, <2>1, <2>2, PublicUnchanged, <1>1 DEF PromiseInv
<1>10. RoundsBounded'
  BY <1>1, PublicUnchanged DEF RoundsBounded
<1> QED BY <1>4, <1>6, <1>7, <1>8, <1>9, <1>10

(* The plan rc_round returns leaves the reserve it checks.                 *)
LEMMA PlannedIInv == ASSUME IInv, Planned PROVE IInv'
<1> USE DEF IInv
<1>1. /\ UNCHANGED <<game, publicState>> /\ phase = "extra" /\ step = "next" /\ todo = {}
      /\ UNCHANGED <<base, promised, root, step, guaranteed, extra, todo, cand, plan,
                     pending, avail, trial>>
  BY DEF Planned, memory, construction
<1>2. phase' = "play"
  BY <1>1 DEF Planned, PlanInv
<1>3. TypeOK'
  BY <1>1, <1>2, PublicUnchanged DEF TypeOK, Phases
<1>4. AssertionsHold' /\ TrialInv' /\ BaseInv' /\ OwedJobsRecertifiable'
  BY <1>2 DEF AssertionsHold, AssertionErrors, TrialInv, BaseInv, OwedJobsRecertifiable, Building
<1>5. ControlInv'
  BY <1>1, <1>2, PublicUnchanged DEF ControlInv, Building, Count
<1>6. PlanInv'
  BY <1>1, <1>2, PublicUnchanged DEF PlanInv, WellPlanned, ReserveKept, Assigned, Coverage
<1>7. PromiseInv' /\ RoundsBounded'
  BY <1>1, <1>2, PublicUnchanged DEF PromiseInv, RoundsBounded, Count, OwedJobs
<1> QED BY <1>3, <1>4, <1>5, <1>6, <1>7

(* A round with nobody to assign ends the game; then no job is owed.       *)
LEMMA NothingToPlayIInv == ASSUME IInv, NothingToPlay PROVE IInv'
<1> USE DEF IInv
<1>1. /\ UNCHANGED <<game, publicState>> /\ phase = "play" /\ phase' = "done"
      /\ Assigned(plan) = {}
      /\ UNCHANGED <<base, promised, root, step, guaranteed, extra, todo, cand, plan,
                     pending, avail, trial>>
  BY DEF NothingToPlay, memory, construction
<1>2. TypeOK'
  BY <1>1, PublicUnchanged DEF TypeOK, Phases
<1>3. AssertionsHold' /\ TrialInv' /\ BaseInv' /\ PlanInv' /\ OwedJobsRecertifiable'
  BY <1>1 DEF AssertionsHold, AssertionErrors, TrialInv, BaseInv, PlanInv,
              OwedJobsRecertifiable, Building
<1>4. ControlInv'
  BY <1>1, PublicUnchanged DEF ControlInv, Building
<1>5. guaranteed = {}
  <2>1. SUFFICES ASSUME NEW j \in guaranteed PROVE FALSE
    OBVIOUS
  <2>2. j \in Jobs /\ j \in Unresolved
    BY <1>1 DEF TypeOK, ControlInv
  <2>3. plan[j] = {}
    BY <1>1, <2>2 DEF Assigned
  <2>4. Cardinality(plan[j]) = Deficit(j)
    BY <1>1, <2>2 DEF PlanInv
  <2>5. Deficit(j) > 0
    BY <2>2, Naturals
  <2> QED BY <2>3, <2>4, <2>5, FS_EmptySet
<1>6. Cardinality(Completed) = promised
  BY <1>1, <1>5, FS_EmptySet, Naturals DEF ControlInv, Count
<1>7. PromiseInv'
  BY <1>1, <1>6, Naturals, PublicUnchanged DEF PromiseInv
<1>8. RoundsBounded'
  BY <1>1, PublicUnchanged DEF RoundsBounded
<1> QED BY <1>2, <1>3, <1>4, <1>7, <1>8

(* A played round: what a guaranteed job lost to failures is open again,   *)
(* and the reserve kept for it covers exactly that and later failures.     *)
LEMMA PlayIInv == ASSUME IInv, Play PROVE IInv'
<1> USE DEF IInv
<1>1. /\ phase = "play" /\ phase' = "idle" /\ Assigned(plan) # {}
      /\ UNCHANGED <<base, promised, root, step, guaranteed, extra, todo, cand, plan,
                     pending, avail, trial>>
  BY DEF Play, memory, construction
<1>2. PICK failed \in SUBSET Assigned(plan) : PlayRound(plan, failed)
  BY DEF Play, Outcomes
<1>3. /\ game' = game /\ unused' = unused \ Assigned(plan)
      /\ passes' = [j \in Jobs |->
           IF passes[j] + Cardinality(plan[j] \ failed) <= game.need[j]
           THEN passes[j] + Cardinality(plan[j] \ failed) ELSE game.need[j]]
      /\ failures' = failures + Cardinality(failed)
      /\ attempts' = [j \in Jobs |-> attempts[j] + Cardinality(plan[j])]
      /\ rounds' = rounds + 1
  BY <1>2 DEF PlayRound
<1> DEFINE served == guaranteed \cup extra
           lost(j) == plan[j] \cap failed
<1>4. /\ plan \in [Jobs -> SUBSET Identities] /\ served \in SUBSET Jobs
      /\ served \in SUBSET Unresolved /\ game.allowance \in Nat
      /\ passes \in [Jobs -> Nat] /\ failures \in Nat /\ rounds \in Nat
      /\ attempts \in [Jobs -> Nat] /\ unused \in SUBSET Identities
  BY <1>1, GamesAssumption DEF TypeOK, PublicTypeOK, Plans, ControlInv
<1>5. IsFiniteSet(failed) /\ Cardinality(failed) \in Nat
  <2>1. failed \in SUBSET Identities
    BY <1>4 DEF Assigned
  <2> QED BY <2>1, IdentitiesAssumption, FS_Subset, FS_CardinalityType
<1>6. \A j \in Jobs :
        /\ IsFiniteSet(plan[j]) /\ IsFiniteSet(lost(j))
        /\ Cardinality(plan[j]) \in Nat /\ Cardinality(lost(j)) \in Nat
        /\ Cardinality(plan[j] \ failed) = Cardinality(plan[j]) - Cardinality(lost(j))
        /\ Cardinality(plan[j] \ failed) \in Nat
  <2>1. SUFFICES ASSUME NEW j \in Jobs
        PROVE  /\ IsFiniteSet(plan[j]) /\ IsFiniteSet(lost(j))
               /\ Cardinality(plan[j]) \in Nat /\ Cardinality(lost(j)) \in Nat
               /\ Cardinality(plan[j] \ failed) = Cardinality(plan[j]) - Cardinality(lost(j))
               /\ Cardinality(plan[j] \ failed) \in Nat
    OBVIOUS
  <2>2. IsFiniteSet(plan[j])
    BY <1>4, IdentitiesAssumption, FS_Subset
  <2>3. IsFiniteSet(lost(j)) /\ IsFiniteSet(plan[j] \ failed)
    BY <2>2, FS_Subset
  <2>4. Cardinality(plan[j] \ failed) = Cardinality(plan[j]) - Cardinality(lost(j))
    BY <2>2, FS_Difference
  <2> QED BY <2>2, <2>3, <2>4, FS_CardinalityType
<1>7. \A j \in Jobs : Cardinality(plan[j]) = IF j \in served THEN Deficit(j) ELSE 0
  BY <1>1 DEF PlanInv
<1>8. \A j \in Jobs :
        /\ Deficit(j) \in Nat /\ game.need[j] \in Nat /\ passes[j] \in Nat
        /\ passes[j] <= game.need[j] /\ Deficit(j) = game.need[j] - passes[j]
  BY Naturals DEF ControlInv, Deficit
<1> HIDE DEF served, lost
(* No report is bought beyond a job's need. *)
<1>9. \A j \in Jobs : passes'[j] = passes[j] + Cardinality(plan[j] \ failed)
  <2>1. SUFFICES ASSUME NEW j \in Jobs
        PROVE  passes[j] + Cardinality(plan[j] \ failed) <= game.need[j]
    BY <1>3
  <2>2. Cardinality(plan[j]) <= Deficit(j)
    BY <1>7, <1>8
  <2>3. /\ Cardinality(plan[j]) \in Nat /\ Cardinality(lost(j)) \in Nat
        /\ Cardinality(plan[j] \ failed) = Cardinality(plan[j]) - Cardinality(lost(j))
    BY <1>6
  <2>4. /\ game.need[j] \in Nat /\ passes[j] \in Nat
        /\ Deficit(j) = game.need[j] - passes[j]
    BY <1>8
  <2> QED BY <2>2, <2>3, <2>4
<1>10. \A j \in Jobs : /\ passes'[j] \in Nat /\ passes[j] <= passes'[j]
                       /\ passes'[j] <= game.need[j]
  <2>1. SUFFICES ASSUME NEW j \in Jobs
        PROVE  /\ passes'[j] \in Nat /\ passes[j] <= passes'[j]
               /\ passes'[j] <= game.need[j]
    OBVIOUS
  <2>2. Cardinality(plan[j]) <= Deficit(j)
    BY <1>7, <1>8
  <2>3. /\ Cardinality(plan[j]) \in Nat /\ Cardinality(lost(j)) \in Nat
        /\ Cardinality(plan[j] \ failed) = Cardinality(plan[j]) - Cardinality(lost(j))
        /\ Cardinality(plan[j] \ failed) \in Nat
    BY <1>6
  <2>4. /\ Deficit(j) \in Nat /\ game.need[j] \in Nat /\ passes[j] \in Nat
        /\ Deficit(j) = game.need[j] - passes[j]
    BY <1>8
  <2> QED BY <1>9, <2>2, <2>3, <2>4
<1>11. \A j \in Jobs : Deficit(j)' = game.need[j] - passes'[j]
  BY <1>3 DEF Deficit
<1>12. \A j \in served : Deficit(j)' = Cardinality(lost(j))
  <2>1. SUFFICES ASSUME NEW j \in served PROVE Deficit(j)' = Cardinality(lost(j))
    OBVIOUS
  <2>2. j \in Jobs /\ Cardinality(plan[j]) = Deficit(j)
    BY <1>4, <1>7
  <2>3. /\ Cardinality(plan[j]) \in Nat /\ Cardinality(lost(j)) \in Nat
        /\ Cardinality(plan[j] \ failed) = Cardinality(plan[j]) - Cardinality(lost(j))
    BY <1>6, <2>2
  <2>4. /\ game.need[j] \in Nat /\ passes[j] \in Nat
        /\ Deficit(j) = game.need[j] - passes[j]
    BY <1>8, <2>2
  <2> QED BY <1>9, <1>11, <2>2, <2>3, <2>4
<1>13. /\ Completed' = {j \in Jobs : passes'[j] >= game.need[j]}
       /\ Unresolved' = {j \in Jobs : passes'[j] < game.need[j]}
  BY <1>3 DEF Completed, Unresolved
<1>14. Completed \in SUBSET Completed' /\ Completed' \in SUBSET Jobs
  BY <1>8, <1>10, <1>13 DEF Completed
<1>15. IsFiniteSet(Completed) /\ IsFiniteSet(Completed')
       /\ Cardinality(Completed) \in Nat /\ Cardinality(Completed') \in Nat
       /\ Cardinality(Completed) <= Cardinality(Completed')
  BY <1>14, JobsAssumption, FS_Subset, FS_CardinalityType
<1>16. TypeOK'
  <2>1. passes' \in [Jobs -> Nat]
    <3>1. \A j \in Jobs : passes'[j] \in Nat
      BY <1>10
    <3> QED BY <1>3, <3>1
  <2>2. attempts' \in [Jobs -> Nat]
    <3>1. ASSUME NEW j \in Jobs PROVE attempts[j] + Cardinality(plan[j]) \in Nat
      <4>1. attempts[j] \in Nat /\ Cardinality(plan[j]) \in Nat
        BY <1>4, <1>6
      <4> QED BY <4>1
    <3> QED BY <1>3, <3>1
  <2>3. PublicTypeOK'
    BY <1>3, <1>4, <1>5, <2>1, <2>2 DEF TypeOK, PublicTypeOK
  <2> QED BY <1>1, <2>3 DEF TypeOK, Phases
<1>17. AssertionsHold' /\ TrialInv' /\ BaseInv' /\ PlanInv'
  BY <1>1 DEF AssertionsHold, AssertionErrors, TrialInv, BaseInv, PlanInv, Building
<1>18. ControlInv'
  BY <1>1, <1>3, <1>10 DEF ControlInv, Building
<1>19. base = guaranteed /\ promised = Count /\ OwedJobs' = guaranteed \cap Unresolved'
       /\ guaranteed \subseteq served /\ guaranteed \in SUBSET Jobs
  BY <1>1 DEF ControlInv, OwedJobs, served, TypeOK
<1>20. OwedJobsRecertifiable'
  <2>1. SUFFICES ASSUME failures' <= game'.allowance, NEW j \in OwedJobs'
        PROVE  Coverage(unused, j)' >= (game.allowance - failures') + Cardinality(OwedReports')
    BY <1>3 DEF OwedJobsRecertifiable
  <2> DEFINE count == [h \in Jobs |-> Deficit(h)']
             gone == [h \in OwedJobs' |-> lost(h)]
  <2>2. count \in [Jobs -> Nat]
    BY <1>8, <1>10, <1>11
  <2>3. OwedJobs' \in SUBSET Jobs /\ OwedJobs' \subseteq served
    BY <1>19
  <2>4. gone \in [OwedJobs' -> SUBSET failed]
    BY DEF lost
  <2>5. \A h \in OwedJobs' : count[h] = Cardinality(gone[h])
    BY <1>12, <2>3
  <2>6. \A h \in OwedJobs' : \A g \in OwedJobs' \ {h} : gone[h] \cap gone[g] = {}
    BY <1>1, <2>3 DEF PlanInv, WellPlanned, lost
  <2> HIDE DEF count, gone
  <2>7. Cardinality(Slots(count, OwedJobs')) <= Cardinality(failed)
    BY <1>5, <2>2, <2>3, <2>4, <2>5, <2>6, SlotsOfLost
  <2>8. OwedReports' = Slots(count, OwedJobs')
    BY DEF OwedReports, Slots, count
  <2>9. Cardinality(Slots(count, OwedJobs')) \in Nat
    BY <2>2, <2>3, SlotsFinite
  <2>10. j \in guaranteed /\ j \in Jobs
    BY <1>19
  <2>11. Coverage(unused, j)' = Coverage(unused \ Assigned(plan), j)
    BY <1>3 DEF Coverage, Compatible
  <2>12. Coverage(unused \ Assigned(plan), j) >= Remaining
    BY <1>1, <2>10 DEF PlanInv, ReserveKept
  <2>13. Coverage(unused \ Assigned(plan), j) \in Nat
    BY <1>4, <2>10, CoverageType
  <2>14. Remaining = game.allowance - failures
    BY <1>3, <1>4, <1>5, <2>1 DEF Remaining, InScope
  <2> QED BY <1>3, <1>4, <1>5, <2>7, <2>8, <2>9, <2>11, <2>12, <2>13, <2>14
<1>21. PromiseInv'
  <2>1. promised \in Nat /\ promised # NoCount
    BY <1>19, Naturals DEF NoCount
  <2>2. InScope' => InScope
    BY <1>3, <1>4, <1>5 DEF InScope
  <2>3. Cardinality(Completed') + Cardinality(OwedJobs') >= promised
    <3>1. IsFiniteSet(OwedJobs') /\ IsFiniteSet(guaranteed)
      BY <1>19, JobsAssumption, FS_Subset
    <3>2. Completed \cap guaranteed = {}
      BY <1>1, <1>8 DEF ControlInv, Completed, Unresolved
    <3>3. Completed' \cap OwedJobs' = {}
      BY <1>8, <1>10, <1>13, <1>19
    <3>4. Completed \cup guaranteed \in SUBSET (Completed' \cup OwedJobs')
      BY <1>8, <1>10, <1>13, <1>14, <1>19
    <3>5. Cardinality(Completed \cup guaranteed) =
            Cardinality(Completed) + Cardinality(guaranteed) - 0
      BY <1>15, <3>1, <3>2, FS_Union, FS_EmptySet
    <3>6. /\ IsFiniteSet(Completed' \cup OwedJobs')
          /\ Cardinality(Completed' \cup OwedJobs') =
               Cardinality(Completed') + Cardinality(OwedJobs') - 0
      BY <1>15, <3>1, <3>3, FS_Union, FS_EmptySet
    <3>7. Cardinality(Completed \cup guaranteed) <= Cardinality(Completed' \cup OwedJobs')
      BY <3>4, <3>6, FS_Subset
    <3>8. Cardinality(OwedJobs') \in Nat /\ Cardinality(guaranteed) \in Nat
      BY <3>1, FS_CardinalityType
    <3> QED BY <1>15, <1>19, <2>1, <3>5, <3>6, <3>7, <3>8 DEF Count
  <2>4. root' = root /\ promised' = promised
    BY <1>1
  <2>5. (root = NoCount <=> promised = NoCount) /\ (InScope => root <= promised)
    BY DEF PromiseInv
  <2> QED BY <1>1, <2>1, <2>2, <2>3, <2>4, <2>5 DEF PromiseInv
<1>22. RoundsBounded'
  <2>1. rounds <= failures + Cardinality(Completed)
    BY DEF RoundsBounded
  <2>2. CASE failed # {}
    <3>1. Cardinality(failed) > 0
      BY <1>5, <2>2, FS_EmptySet
    <3> QED BY <1>3, <1>4, <1>5, <1>15, <2>1, <3>1 DEF RoundsBounded
  <2>3. CASE failed = {}
    <3>1. PICK j \in Jobs : plan[j] # {}
      BY <1>1 DEF Assigned
    <3>2. Cardinality(plan[j]) # 0
      <4>1. IsFiniteSet(plan[j])
        BY <1>6
      <4> QED BY <3>1, <4>1, FS_EmptySet
    <3>3. j \in served
      BY <1>7, <3>2
    <3>4. Cardinality(lost(j)) = 0 /\ Cardinality(failed) = 0
      BY <2>3, FS_EmptySet DEF lost
    <3>5. j \in Completed' /\ j \notin Completed
      BY <1>4, <1>8, <1>10, <1>11, <1>12, <1>13, <3>3, <3>4 DEF Unresolved, Completed
    <3>6. Completed \cup {j} \in SUBSET Completed'
      BY <1>14, <3>5
    <3>7. Cardinality(Completed \cup {j}) = Cardinality(Completed) + 1
      BY <1>15, <3>5, FS_AddElement
    <3>8. Cardinality(Completed) + 1 <= Cardinality(Completed')
      BY <1>15, <3>6, <3>7, FS_Subset
    <3> QED BY <1>3, <1>4, <1>15, <2>1, <3>4, <3>8 DEF RoundsBounded
  <2> QED BY <2>2, <2>3
<1> QED BY <1>16, <1>17, <1>18, <1>20, <1>21, <1>22

LEMMA StoppedIInv == ASSUME IInv, UNCHANGED coverVars PROVE IInv'
<1> USE DEF IInv
<1>1. /\ UNCHANGED <<game, publicState>>
      /\ UNCHANGED <<base, promised, root, phase, step, guaranteed, extra, todo, cand,
                     plan, pending, avail, trial>>
  BY DEF coverVars, memory, construction
<1>2. TypeOK' /\ AssertionsHold' /\ ControlInv'
  BY <1>1, PublicUnchanged DEF TypeOK, AssertionsHold, ControlInv, Count
<1>3. TrialJobs' = TrialJobs /\ Fits' = Fits
  BY <1>1, PublicUnchanged DEF TrialJobs, TrialReserve, Fits, Slack, Coverage
<1>4. TrialInv'
  BY <1>1, <1>3, PublicUnchanged DEF TrialInv, WellPlanned, Assigned
<1>5. BaseInv' /\ PlanInv'
  BY <1>1, PublicUnchanged DEF BaseInv, PlanInv, WellPlanned, ReserveKept, Assigned, Coverage, Slots
<1>6. OwedJobs' = OwedJobs /\ \A j : Coverage(unused, j)' = Coverage(unused, j)
  BY <1>1, PublicUnchanged DEF OwedJobs, Coverage
<1>7. OwedReports' = OwedReports
  BY <1>1 DEF OwedReports, Slots, OwedJobs, Unresolved, Deficit, publicState
<1>8. OwedJobsRecertifiable'
  BY <1>1, <1>6, <1>7, PublicUnchanged DEF OwedJobsRecertifiable
<1>9. PromiseInv' /\ RoundsBounded'
  BY <1>1, <1>6, PublicUnchanged DEF PromiseInv, RoundsBounded, Count
<1> QED BY <1>2, <1>4, <1>5, <1>8, <1>9

LEMMA NextIInv == IInv /\ [CoverNext]_coverVars => IInv'
<1> SUFFICES ASSUME IInv, [CoverNext]_coverVars PROVE IInv'
  OBVIOUS
<1>1. CASE StartRound
  BY <1>1, StartRoundIInv
<1>2. CASE StopRounds
  BY <1>2, StopRoundsIInv
<1>3. CASE Check
  BY <1>3, CheckIInv
<1>4. CASE Pick
  BY <1>4, PickIInv
<1>5. CASE Accept
  BY <1>5, AcceptIInv
<1>6. CASE Reject
  BY <1>6, RejectIInv
<1>7. CASE TryNext
  BY <1>7, TryNextIInv
<1>8. CASE Certified
  BY <1>8, CertifiedIInv
<1>9. CASE Planned
  BY <1>9, PlannedIInv
<1>10. CASE Play
  BY <1>10, PlayIInv
<1>11. CASE NothingToPlay
  BY <1>11, NothingToPlayIInv
<1>12. CASE PlayStopped \/ UNCHANGED coverVars
  BY <1>12, StoppedIInv DEF PlayStopped
<1> QED BY <1>1, <1>2, <1>3, <1>4, <1>5, <1>6, <1>7, <1>8, <1>9, <1>10, <1>11, <1>12 DEF CoverNext

-------------------------------------------------------------------------------
(* Theorems                                                                *)

(* The inductive invariant holds in every reachable state of the policy,   *)
(* for every set of identities, jobs and games.                            *)
THEOREM Invariance == CoverSpec => []IInv
BY InitIInv, NextIInv, PTL DEF CoverSpec

(* Every variable of the policy and of simulate keeps its type.            *)
THEOREM TypeCorrect == CoverSpec => []TypeOK
<1>1. IInv => TypeOK
  BY DEF IInv
<1> QED BY <1>1, Invariance, PTL

(* None of the AssertionErrors of certify and rc_round is ever raised: the *)
(* greedy loop always finds the base plan, the count never drops and the   *)
(* jobs served on top leave the reserve.                                   *)
THEOREM NoAssertionError == CoverSpec => []AssertionsHold
<1>1. IInv => AssertionsHold
  BY DEF IInv
<1> QED BY <1>1, Invariance, PTL

(* Between rounds certify can start from the jobs it owes: each has a      *)
(* compatible identity for every open owed report and every later failure. *)
THEOREM OwedStayRecertifiable == CoverSpec => []OwedJobsRecertifiable
<1>1. IInv => OwedJobsRecertifiable
  BY DEF IInv
<1> QED BY <1>1, Invariance, PTL

(* A planned round spends each identity once, on a compatible job, and     *)
(* buys no PASS beyond a job's need.                                       *)
THEOREM PlansAreExact == CoverSpec => []PlanIsExact
<1>1. IInv => PlanIsExact
  BY DEF IInv, PlanIsExact, PlanInv, WellPlanned
<1> QED BY <1>1, Invariance, PTL

(* Rounds never outnumber failures and finished jobs.                      *)
THEOREM RoundsAreBounded == CoverSpec => []RoundsBounded
<1>1. IInv => RoundsBounded
  BY DEF IInv
<1> QED BY <1>1, Invariance, PTL

(* The root certificate is kept: within the allowance simulate returns     *)
(* with at least root_guaranteed_count jobs complete.                      *)
THEOREM RootGuarantee == CoverSpec => []GuaranteeHonoured
<1>1. IInv => GuaranteeHonoured
  <2> SUFFICES ASSUME IInv PROVE GuaranteeHonoured
    OBVIOUS
  <2> USE DEF IInv
  <2>1. SUFFICES ASSUME phase = "done", failures <= game.allowance, root # NoCount,
                        game.allowance + Cardinality(Jobs) <= MaxRounds
                 PROVE  Cardinality(Completed) >= root
    BY DEF GuaranteeHonoured
  <2>2. InScope
    BY <2>1 DEF InScope
  <2>3. root \in Nat /\ promised \in Int /\ root <= promised
    BY <2>1, <2>2 DEF TypeOK, PromiseInv, NoCount
  <2>4. Cardinality(Completed) \in Nat
    BY Naturals
  <2>5. CASE Cardinality(Completed) >= promised
    BY <2>3, <2>4, <2>5
  <2>6. CASE rounds >= MaxRounds /\ Unresolved # {}
    <3>1. PICK j \in Jobs : passes[j] < game.need[j]
      BY <2>6 DEF Unresolved
    <3>2. j \notin Completed /\ Completed \cup {j} \in SUBSET Jobs
      BY <3>1, Naturals DEF Completed
    <3>3. Cardinality(Completed \cup {j}) = Cardinality(Completed) + 1
      BY <3>2, Naturals, FS_AddElement
    <3>4. Cardinality(Completed) + 1 <= Cardinality(Jobs)
      BY <3>2, <3>3, JobsAssumption, FS_Subset
    <3>5. rounds <= failures + Cardinality(Completed)
      BY DEF RoundsBounded
    <3>6. /\ rounds \in Nat /\ failures \in Nat /\ game.allowance \in Nat
          /\ MaxRounds \in Nat /\ Cardinality(Jobs) \in Nat
      BY GamesAssumption, BoundsAssumption, JobsAssumption, FS_CardinalityType
         DEF TypeOK, PublicTypeOK
    <3> QED BY <2>1, <2>4, <2>6, <3>4, <3>5, <3>6
  <2> QED BY <2>1, <2>2, <2>5, <2>6 DEF PromiseInv
<1> QED BY <1>1, Invariance, PTL

(* Within the allowance a guaranteed job stays guaranteed until complete:  *)
(* certify never trades it for another job.                                *)
THEOREM GuaranteesPersist == CoverSpec => PromisesKept
<1>1. IInv /\ [CoverNext]_coverVars => [failures' <= game.allowance => base \subseteq base' \cup Completed']_coverVars
  <2> SUFFICES ASSUME IInv, [CoverNext]_coverVars, failures' <= game.allowance, ~(UNCHANGED coverVars)
               PROVE  base \subseteq base' \cup Completed'
    OBVIOUS
  <2> USE DEF IInv
  <2>1. CoverNext /\ failures' <= game.allowance
    OBVIOUS
  <2>2. CASE ~Certified
    <3>1. base' = base
      BY <2>1, <2>2 DEF CoverNext, StartRound, StopRounds, Check, Pick, Accept, Reject, TryNext,
                        Planned, Play, NothingToPlay, PlayStopped, memory, coverVars
    <3> QED BY <3>1
  <2>3. CASE Certified
    <3>1. UNCHANGED <<game, publicState>> /\ phase = "grow" /\ base' \in {base, guaranteed}
      BY <2>3 DEF Certified, memory
    <3>2. InScope
      BY <2>1, <3>1, PublicUnchanged DEF InScope
    <3>3. base \cap Unresolved \subseteq guaranteed
      BY <3>1, <3>2 DEF PromiseInv, OwedJobs
    <3>4. base \subseteq Unresolved \cup Completed
      BY Naturals DEF TypeOK, Unresolved, Completed
    <3> QED BY <3>1, <3>3, <3>4, PublicUnchanged
  <2> QED BY <2>2, <2>3
<1> QED BY <1>1, Invariance, PTL DEF CoverSpec, PromisesKept

-------------------------------------------------------------------------------
(* The solver's cache                                                      *)

\* A layer of the solver's or of the auditor's cache, and the layers up to
\* one of n identities.
LayerOf(audit, g, below, size) ==
  IF audit THEN AuditedLayer(g, below, size) ELSE Layered(g, below, size)
LayersUpTo(f, audit, g, n) ==
  f = [size \in 0..n |-> LayerOf(audit, g, IF size = 0 THEN <<>> ELSE f[size - 1], size)]
AllLayers(f, audit, g) ==
  f = [size \in Nat |-> LayerOf(audit, g, IF size = 0 THEN <<>> ELSE f[size - 1], size)]

LEMMA LayersGrow ==
  ASSUME NEW audit, NEW g
  PROVE  \A n \in Nat : \E f : LayersUpTo(f, audit, g, n)
<1> DEFINE G == {n \in Nat : \E f : LayersUpTo(f, audit, g, n)}
           NextLayer(below, size) == LayerOf(audit, g, below, size)
<1>1. 0 \in G
  <2> DEFINE f == [size \in 0..0 |-> NextLayer(<<>>, 0)]
  <2>1. LayersUpTo(f, audit, g, 0)
    BY DEF LayersUpTo
  <2> QED  BY <2>1
<1>2. ASSUME NEW n \in Nat, n \in G PROVE n + 1 \in G
  <2>1. PICK f : LayersUpTo(f, audit, g, n)
    BY <1>2
  <2>2. f = [size \in 0..n |-> NextLayer(IF size = 0 THEN <<>> ELSE f[size - 1], size)]
    BY <2>1, Zenon DEF LayersUpTo
  <2> DEFINE h == [size \in 0..(n + 1) |-> NextLayer(IF size = 0 THEN <<>> ELSE f[size - 1], size)]
  <2> HIDE DEF NextLayer
  <2>3. \A size \in 0..n : h[size] = f[size]
    BY <2>2
  <2>4. \A size \in 0..(n + 1) : size # 0 => size - 1 \in 0..n
    OBVIOUS
  <2>5. \A size \in 0..(n + 1) : h[size] = NextLayer(IF size = 0 THEN <<>> ELSE h[size - 1], size)
    BY <2>3, <2>4
  <2>6. h = [size \in 0..(n + 1) |-> NextLayer(IF size = 0 THEN <<>> ELSE h[size - 1], size)]
    <3>1. h = [size \in 0..(n + 1) |-> h[size]]
      OBVIOUS
    <3> HIDE DEF h
    <3> QED  BY <2>5, <3>1
  <2> HIDE DEF h
  <2>7. LayersUpTo(h, audit, g, n + 1)
    BY <2>6, Zenon DEF LayersUpTo, NextLayer
  <2> QED  BY <2>7
<1>3. Nat \subseteq G
  <2> HIDE DEF G
  <2> QED  BY <1>1, <1>2, AllNaturals
<1> QED  BY <1>3

LEMMA LayersAgree ==
  ASSUME NEW audit, NEW g, NEW n \in Nat, NEW m \in Nat,
         NEW f, LayersUpTo(f, audit, g, n), NEW h, LayersUpTo(h, audit, g, m)
  PROVE  \A k \in Nat : k <= n /\ k <= m => f[k] = h[k]
<1> DEFINE G == {k \in Nat : k <= n /\ k <= m => f[k] = h[k]}
           NextLayer(below, size) == LayerOf(audit, g, below, size)
<1>0. /\ f = [size \in 0..n |-> NextLayer(IF size = 0 THEN <<>> ELSE f[size - 1], size)]
      /\ h = [size \in 0..m |-> NextLayer(IF size = 0 THEN <<>> ELSE h[size - 1], size)]
  BY Zenon DEF LayersUpTo
<1> HIDE DEF NextLayer
<1>1. 0 \in G
  BY <1>0
<1>2. ASSUME NEW k \in Nat, k \in G PROVE k + 1 \in G
  <2> SUFFICES ASSUME k + 1 <= n, k + 1 <= m PROVE f[k + 1] = h[k + 1]
    OBVIOUS
  <2>1. f[k] = h[k]
    BY <1>2
  <2>2. k + 1 \in 0..n /\ k + 1 \in 0..m /\ k + 1 # 0 /\ (k + 1) - 1 = k
    OBVIOUS
  <2>3. f[k + 1] = NextLayer(f[k], k + 1)
    BY <1>0, <2>2
  <2>4. h[k + 1] = NextLayer(h[k], k + 1)
    BY <1>0, <2>2
  <2> QED  BY <2>1, <2>3, <2>4
<1>3. Nat \subseteq G
  <2> HIDE DEF G
  <2> QED  BY <1>1, <1>2, AllNaturals
<1> QED  BY <1>3

\* The recursion over the sizes has a solution.
LEMMA LayersExist ==
  ASSUME NEW audit, NEW g
  PROVE  \E f : AllLayers(f, audit, g)
<1> DEFINE Upto(n) == CHOOSE f : LayersUpTo(f, audit, g, n)
           NextLayer(below, size) == LayerOf(audit, g, below, size)
           f == [n \in Nat |-> Upto(n)[n]]
<1>1. \A n \in Nat : LayersUpTo(Upto(n), audit, g, n)
  BY LayersGrow
<1> HIDE DEF Upto
<1>2. \A n \in Nat : f[n] = NextLayer(IF n = 0 THEN <<>> ELSE f[n - 1], n)
  <2> SUFFICES ASSUME NEW n \in Nat PROVE f[n] = NextLayer(IF n = 0 THEN <<>> ELSE f[n - 1], n)
    OBVIOUS
  <2>1. f[n] = Upto(n)[n]
    OBVIOUS
  <2>2. Upto(n) = [size \in 0..n |-> NextLayer(IF size = 0 THEN <<>> ELSE Upto(n)[size - 1], size)]
    BY <1>1, Zenon DEF LayersUpTo
  <2> HIDE DEF NextLayer
  <2>3. Upto(n)[n] = NextLayer(IF n = 0 THEN <<>> ELSE Upto(n)[n - 1], n)
    BY <2>2
  <2>4. ASSUME n # 0 PROVE f[n - 1] = Upto(n)[n - 1]
    <3>1. n - 1 \in Nat /\ n - 1 <= n /\ n - 1 <= n - 1
      BY <2>4
    <3>2. Upto(n - 1)[n - 1] = Upto(n)[n - 1]
      BY <1>1, <3>1, LayersAgree
    <3> QED  BY <3>1, <3>2
  <2> HIDE DEF f
  <2> QED  BY <2>1, <2>3, <2>4
<1>3. f = [n \in Nat |-> NextLayer(IF n = 0 THEN <<>> ELSE f[n - 1], n)]
  <2>1. f = [n \in Nat |-> f[n]]
    OBVIOUS
  <2> HIDE DEF f, NextLayer
  <2> QED  BY <1>2, <2>1
<1> HIDE DEF f
<1>4. AllLayers(f, audit, g)
  BY <1>3, Zenon DEF AllLayers
<1> QED  BY <1>4

\* A layer over those of fewer identities, where they have no position in
\* common.
LEMMA LaidOver ==
  ASSUME NEW layer, NEW below, DOMAIN layer \cap DOMAIN below = {}
  PROVE  /\ DOMAIN Over(layer, below) = DOMAIN layer \cup DOMAIN below
         /\ \A p \in DOMAIN layer : Over(layer, below)[p] = layer[p]
         /\ \A p \in DOMAIN below : Over(layer, below)[p] = below[p]
<1>1. CASE below = <<>>
  <2>1. Over(layer, below) = layer
    BY <1>1 DEF Over
  <2>2. DOMAIN below = {}
    BY <1>1
  <2> QED  BY <2>1, <2>2
<1>2. CASE below # <<>>
  <2>1. Over(layer, below) =
          [p \in DOMAIN layer \cup DOMAIN below |-> IF p \in DOMAIN below THEN below[p] ELSE layer[p]]
    BY <1>2 DEF Over
  <2> QED  BY <2>1
<1> QED  BY <1>1, <1>2

\* The cache holds the layers of all sizes.
LEMMA SolvedLayers ==
  ASSUME NEW g
  PROVE  \E f : AllLayers(f, FALSE, g) /\ Solved(g) = f[Cardinality(Identities)]
<1> DEFINE f == CHOOSE f : f = [size \in Nat |-> Layered(g, IF size = 0 THEN <<>> ELSE f[size - 1], size)]
<1>1. Solved(g) = f[Cardinality(Identities)]
  BY DEF Solved
<1>2. \A h : AllLayers(h, FALSE, g) <=> h = [size \in Nat |-> Layered(g, IF size = 0 THEN <<>> ELSE h[size - 1], size)]
  BY DEF AllLayers, LayerOf
<1>3. f = [size \in Nat |-> Layered(g, IF size = 0 THEN <<>> ELSE f[size - 1], size)]
  BY <1>2, LayersExist
<1> HIDE DEF f
<1> QED  BY <1>1, <1>2, <1>3

LEMMA AuditedLayers ==
  ASSUME NEW g
  PROVE  \E f : AllLayers(f, TRUE, g) /\ Audited(g) = f[Cardinality(Identities)]
<1> DEFINE f == CHOOSE f : f = [size \in Nat |-> AuditedLayer(g, IF size = 0 THEN <<>> ELSE f[size - 1], size)]
<1>1. Audited(g) = f[Cardinality(Identities)]
  BY DEF Audited
<1>2. \A h : AllLayers(h, TRUE, g) <=> h = [size \in Nat |-> AuditedLayer(g, IF size = 0 THEN <<>> ELSE h[size - 1], size)]
  BY DEF AllLayers, LayerOf
<1>3. f = [size \in Nat |-> AuditedLayer(g, IF size = 0 THEN <<>> ELSE f[size - 1], size)]
  BY <1>2, LayersExist
<1> HIDE DEF f
<1> QED  BY <1>1, <1>2, <1>3

PositionsOf(audit, g, size) == IF audit THEN AuditedPositions(g, size) ELSE Positions(g, size)
SolutionAt(audit, g, below, p) ==
  IF audit THEN AuditedSolution(g, below, p[1], p[2], p[3]) ELSE Solution(g, below, p[1], p[2], p[3])
LowerLayers(f, size) == IF size = 0 THEN <<>> ELSE f[size - 1]
LayersHold(f, audit, g, m) ==
  /\ DOMAIN f[m] = UNION {PositionsOf(audit, g, k) : k \in 0..m}
  /\ \A k \in 0..m : \A p \in PositionsOf(audit, g, k) : f[m][p] = SolutionAt(audit, g, LowerLayers(f, k), p)

LEMMA PositionSize ==
  ASSUME NEW audit, NEW g, NEW size, NEW p \in PositionsOf(audit, g, size)
  PROVE  p[1] \in SUBSET Identities /\ Cardinality(p[1]) = size
<1>1. \A q \in Positions(g, size) : q[1] \in SUBSET Identities /\ Cardinality(q[1]) = size
  BY DEF Positions
<1>2. \A q \in AuditedPositions(g, size) : q[1] \in SUBSET Identities /\ Cardinality(q[1]) = size
  <2> SUFFICES ASSUME NEW q \in AuditedPositions(g, size)
               PROVE  q[1] \in SUBSET Identities /\ Cardinality(q[1]) = size
    OBVIOUS
  <2>1. PICK r \in Positions(g, size) : q = <<r[1], r[2], Hypotheses(r[1], r[3])>>
    BY DEF AuditedPositions
  <2>2. q[1] = r[1]
    BY <2>1
  <2> QED  BY <1>1, <2>2
<1> QED  BY <1>1, <1>2 DEF PositionsOf

LayerIs(layer, audit, g, below, size) ==
  /\ DOMAIN layer = PositionsOf(audit, g, size) \cup DOMAIN below
  /\ \A p \in PositionsOf(audit, g, size) : layer[p] = SolutionAt(audit, g, below, p)
  /\ \A p \in DOMAIN below : layer[p] = below[p]

\* A layer adds the solutions of its positions to the layers below.
LEMMA LayerAdds ==
  ASSUME NEW audit, NEW g, NEW below, NEW size,
         DOMAIN below \cap PositionsOf(audit, g, size) = {}
  PROVE  LayerIs(LayerOf(audit, g, below, size), audit, g, below, size)
<1> DEFINE top == [p \in PositionsOf(audit, g, size) |-> SolutionAt(audit, g, below, p)]
<1>1. LayerOf(audit, g, below, size) = Over(top, below)
  <2>1. CASE audit
    <3>1. top = [p \in AuditedPositions(g, size) |-> AuditedSolution(g, below, p[1], p[2], p[3])]
      BY <2>1, Zenon DEF PositionsOf, SolutionAt
    <3> HIDE DEF top
    <3> QED  BY <2>1, <3>1, Zenon DEF LayerOf, AuditedLayer
  <2>2. CASE ~audit
    <3>1. top = [p \in Positions(g, size) |-> Solution(g, below, p[1], p[2], p[3])]
      BY <2>2, Zenon DEF PositionsOf, SolutionAt
    <3> HIDE DEF top
    <3> QED  BY <2>2, <3>1, Zenon DEF LayerOf, Layered
  <2> QED  BY <2>1, <2>2
<1>2. DOMAIN top = PositionsOf(audit, g, size) /\ DOMAIN top \cap DOMAIN below = {}
  OBVIOUS
<1>3. \A p \in PositionsOf(audit, g, size) : top[p] = SolutionAt(audit, g, below, p)
  OBVIOUS
<1> HIDE DEF top
<1>4. /\ DOMAIN Over(top, below) = DOMAIN top \cup DOMAIN below
      /\ \A p \in DOMAIN top : Over(top, below)[p] = top[p]
      /\ \A p \in DOMAIN below : Over(top, below)[p] = below[p]
  BY <1>2, LaidOver
<1> QED  BY <1>1, <1>2, <1>3, <1>4 DEF LayerIs

LEMMA AllLayersHold ==
  ASSUME NEW audit, NEW g, NEW f, AllLayers(f, audit, g)
  PROVE  \A m \in Nat : LayersHold(f, audit, g, m)
<1> DEFINE G == {m \in Nat : LayersHold(f, audit, g, m)}
<1>0. f = [size \in Nat |-> LayerOf(audit, g, LowerLayers(f, size), size)]
  BY Zenon DEF AllLayers, LowerLayers
<1>1. 0 \in G
  <2>1. DOMAIN LowerLayers(f, 0) = {} /\ f[0] = LayerOf(audit, g, LowerLayers(f, 0), 0)
    BY <1>0 DEF LowerLayers
  <2>2. /\ DOMAIN f[0] = PositionsOf(audit, g, 0)
        /\ \A p \in PositionsOf(audit, g, 0) : f[0][p] = SolutionAt(audit, g, LowerLayers(f, 0), p)
    <3>1. LayerIs(LayerOf(audit, g, LowerLayers(f, 0), 0), audit, g, LowerLayers(f, 0), 0)
      BY <2>1, LayerAdds
    <3> QED  BY <2>1, <3>1 DEF LayerIs
  <2>3. \A k \in 0..0 : k = 0
    OBVIOUS
  <2>4. UNION {PositionsOf(audit, g, k) : k \in 0..0} = PositionsOf(audit, g, 0)
    BY <2>3
  <2> QED  BY <2>2, <2>3, <2>4 DEF LayersHold
<1>2. ASSUME NEW m \in Nat, m \in G PROVE m + 1 \in G
  <2>1. /\ DOMAIN f[m] = UNION {PositionsOf(audit, g, k) : k \in 0..m}
        /\ \A k \in 0..m : \A p \in PositionsOf(audit, g, k) : f[m][p] = SolutionAt(audit, g, LowerLayers(f, k), p)
    BY <1>2 DEF LayersHold
  <2>2. LowerLayers(f, m + 1) = f[m] /\ f[m + 1] = LayerOf(audit, g, f[m], m + 1)
    BY <1>0 DEF LowerLayers
  <2>3. DOMAIN f[m] \cap PositionsOf(audit, g, m + 1) = {}
    <3> SUFFICES ASSUME NEW p \in DOMAIN f[m], p \in PositionsOf(audit, g, m + 1) PROVE FALSE
      OBVIOUS
    <3>1. PICK k \in 0..m : p \in PositionsOf(audit, g, k)
      BY <2>1
    <3>2. Cardinality(p[1]) = k
      BY <3>1, PositionSize
    <3>3. Cardinality(p[1]) = m + 1
      BY PositionSize
    <3> QED  BY <3>2, <3>3
  <2>4. /\ DOMAIN f[m + 1] = PositionsOf(audit, g, m + 1) \cup DOMAIN f[m]
        /\ \A p \in PositionsOf(audit, g, m + 1) : f[m + 1][p] = SolutionAt(audit, g, f[m], p)
        /\ \A p \in DOMAIN f[m] : f[m + 1][p] = f[m][p]
    <3>1. LayerIs(LayerOf(audit, g, f[m], m + 1), audit, g, f[m], m + 1)
      BY <2>3, LayerAdds
    <3> QED  BY <2>2, <3>1 DEF LayerIs
  <2>5. \A k \in 0..(m + 1) : k \in 0..m \/ k = m + 1
    OBVIOUS
  <2>6. m + 1 \in 0..(m + 1) /\ \A k \in 0..m : k \in 0..(m + 1)
    OBVIOUS
  <2>7. DOMAIN f[m + 1] = UNION {PositionsOf(audit, g, k) : k \in 0..(m + 1)}
    BY <2>1, <2>4, <2>5, <2>6
  <2>8. ASSUME NEW k \in 0..(m + 1), NEW p \in PositionsOf(audit, g, k)
        PROVE  f[m + 1][p] = SolutionAt(audit, g, LowerLayers(f, k), p)
    <3>1. CASE k = m + 1
      BY <2>2, <2>4, <3>1
    <3>2. CASE k \in 0..m
      BY <2>1, <2>4, <3>2
    <3> QED  BY <2>5, <3>1, <3>2
  <2> QED  BY <2>7, <2>8 DEF LayersHold
<1>3. Nat \subseteq G
  <2> HIDE DEF G
  <2> QED  BY <1>1, <1>2, AllNaturals
<1> QED  BY <1>3

\* What a cache holds: each position up to all identities, solved from the
\* positions with an identity less, as the cache itself holds them.
AllOf == Cardinality(Identities)
LayeredCache(cache, audit, g) ==
  /\ DOMAIN cache = UNION {PositionsOf(audit, g, k) : k \in 0..AllOf}
  /\ \A k \in 0..AllOf : \A p \in PositionsOf(audit, g, k) :
       \E below : /\ cache[p] = SolutionAt(audit, g, below, p)
                  /\ k > 0 => \A q \in PositionsOf(audit, g, k - 1) : below[q] = cache[q]

LEMMA LayersMakeCache ==
  ASSUME NEW audit, NEW g, NEW f, AllLayers(f, audit, g), NEW cache, cache = f[AllOf]
  PROVE  LayeredCache(cache, audit, g)
<1>1. \A m \in Nat : LayersHold(f, audit, g, m)
  BY AllLayersHold
<1>2. AllOf \in Nat
  BY IdentitiesAssumption, FS_CardinalityType DEF AllOf
<1>3. /\ DOMAIN cache = UNION {PositionsOf(audit, g, k) : k \in 0..AllOf}
      /\ \A k \in 0..AllOf : \A p \in PositionsOf(audit, g, k) : cache[p] = SolutionAt(audit, g, LowerLayers(f, k), p)
  BY <1>1, <1>2 DEF LayersHold
<1>4. ASSUME NEW k \in 0..AllOf, k > 0, NEW q \in PositionsOf(audit, g, k - 1)
      PROVE  LowerLayers(f, k)[q] = cache[q]
  <2>1. LowerLayers(f, k) = f[k - 1] /\ k - 1 \in Nat /\ k - 1 \in 0..(k - 1) /\ k - 1 \in 0..AllOf
    BY <1>2, <1>4 DEF LowerLayers
  <2>2. f[k - 1][q] = SolutionAt(audit, g, LowerLayers(f, k - 1), q)
    <3>1. LayersHold(f, audit, g, k - 1)
      BY <1>1, <2>1
    <3> QED  BY <2>1, <3>1 DEF LayersHold
  <2> QED  BY <1>3, <2>1, <2>2
<1> QED  BY <1>3, <1>4 DEF LayeredCache

LEMMA SolvedCache ==
  ASSUME NEW g
  PROVE  LayeredCache(Solved(g), FALSE, g) /\ LayeredCache(Audited(g), TRUE, g)
<1>1. LayeredCache(Solved(g), FALSE, g)
  <2>1. PICK f : AllLayers(f, FALSE, g) /\ Solved(g) = f[AllOf]
    BY SolvedLayers DEF AllOf
  <2> QED  BY <2>1, LayersMakeCache
<1>2. LayeredCache(Audited(g), TRUE, g)
  <2>1. PICK f : AllLayers(f, TRUE, g) /\ Audited(g) = f[AllOf]
    BY AuditedLayers DEF AllOf
  <2> QED  BY <2>1, LayersMakeCache
<1> QED  BY <1>1, <1>2

\* The least and the greatest of finitely many integers.
LEMMA LeastIs ==
  ASSUME NEW S, IsFiniteSet(S), S \subseteq Int, S # {}
  PROVE  Least(S) \in S /\ \A m \in S : Least(S) <= m
<1> DEFINE Good == {C \in SUBSET S : C # {} => \E n \in C : \A m \in C : n <= m}
<1>1. {} \in Good
  OBVIOUS
<1>2. ASSUME NEW C \in SUBSET S, C # {}, \A x \in C : C \ {x} \in Good PROVE C \in Good
  <2>1. PICK x \in C : C \ {x} \in Good
    BY <1>2
  <2>2. CASE C \ {x} = {}
    <3>1. C = {x} /\ x \in Int
      BY <2>2
    <3> QED  BY <3>1
  <2>3. CASE C \ {x} # {}
    <3>1. PICK n \in C \ {x} : \A m \in C \ {x} : n <= m
      BY <2>1, <2>3
    <3>2. n \in Int /\ x \in Int /\ \A m \in C : m \in Int
      OBVIOUS
    <3>3. CASE n <= x
      <4>1. \A m \in C : n <= m
        BY <3>1, <3>3
      <4> QED  BY <4>1
    <3>4. CASE ~(n <= x)
      <4>1. \A m \in C : x <= m
        BY <3>1, <3>2, <3>4
      <4> QED  BY <4>1
    <3> QED  BY <3>3, <3>4
  <2> QED  BY <2>2, <2>3
<1>3. S \in Good
  <2> HIDE DEF Good
  <2> QED  BY <1>1, <1>2, AllSubsets
<1>4. \E n \in S : \A m \in S : n <= m
  BY <1>3
<1> QED  BY <1>4 DEF Least

\* What a function gives on a finite set is finite.
LEMMA GivesFinitely ==
  ASSUME NEW S, IsFiniteSet(S), NEW f
  PROVE  IsFiniteSet({f[x] : x \in S})
<1> DEFINE T == {f[x] : x \in S}
           h == [x \in S |-> f[x]]
<1>1. h \in [S -> T]
  OBVIOUS
<1>2. \A t \in T : \E x \in S : h[x] = t
  OBVIOUS
<1> HIDE DEF h, T
<1>3. h \in Surjection(S, T)
  BY <1>1, <1>2 DEF Surjection
<1>4. IsFiniteSet(T)
  BY <1>3, FS_Surjection
<1> QED  BY <1>4 DEF T

LEMMA GreatestIs ==
  ASSUME NEW S, IsFiniteSet(S), S \subseteq Int, S # {}
  PROVE  Greatest(S) \in S /\ \A m \in S : m <= Greatest(S)
<1> DEFINE T == {-n : n \in S}
<1>1. IsFiniteSet(T)
  <2> DEFINE f == [n \in S |-> -n]
  <2>1. IsFiniteSet({f[n] : n \in S})
    BY GivesFinitely
  <2>2. T = {f[n] : n \in S}
    OBVIOUS
  <2> QED  BY <2>1, <2>2
<1>2. T \subseteq Int /\ T # {}
  <2>1. \A n \in S : -n \in Int
    OBVIOUS
  <2> QED  BY <2>1
<1>3. Least(T) \in T /\ \A m \in T : Least(T) <= m
  <2> HIDE DEF T
  <2> QED  BY <1>1, <1>2, LeastIs
<1>4. PICK n \in S : Least(T) = -n
  BY <1>3
<1>5. \A m \in S : m <= n
  <2> SUFFICES ASSUME NEW m \in S PROVE m <= n
    OBVIOUS
  <2>1. -m \in T /\ m \in Int /\ n \in Int
    OBVIOUS
  <2>2. -n <= -m
    BY <1>3, <1>4, <2>1
  <2> QED  BY <2>1, <2>2
<1> QED  BY <1>5 DEF Greatest

\* Games and positions.
LEMMA GameFacts ==
  ASSUME NEW g \in Games
  PROVE  /\ g.compat \in [Identities -> SUBSET Jobs] /\ g.need \in [Jobs -> Nat \ {0}] /\ g.allowance \in Nat
         /\ MaxNeed(g) \in Nat /\ \A j \in Jobs : g.need[j] <= MaxNeed(g)
<1>1. g.compat \in [Identities -> SUBSET Jobs] /\ g.need \in [Jobs -> Nat \ {0}] /\ g.allowance \in Nat
  BY GamesAssumption
<1> DEFINE S == {g.need[j] : j \in Jobs}
<1>2. IsFiniteSet(S)
  BY JobsAssumption, GivesFinitely
<1>3. S \subseteq Int /\ S # {} /\ S \subseteq Nat
  <2>1. \A j \in Jobs : g.need[j] \in Nat /\ g.need[j] \in Int
    BY <1>1
  <2>2. S # {}
    BY JobsAssumption
  <2> QED  BY <2>1, <2>2
<1>4. MaxNeed(g) = Greatest(S)
  BY DEF MaxNeed
<1>5. \A j \in Jobs : g.need[j] \in S
  OBVIOUS
<1> HIDE DEF S
<1>6. Greatest(S) \in S /\ \A m \in S : m <= Greatest(S)
  BY <1>2, <1>3, GreatestIs
<1> QED  BY <1>1, <1>3, <1>4, <1>5, <1>6

LEMMA CountFacts ==
  ASSUME NEW g \in Games, NEW c
  PROVE  c \in CountsWithin(g) <=> c \in [Jobs -> Nat] /\ \A j \in Jobs : c[j] <= g.need[j]
<1>1. /\ g.need \in [Jobs -> Nat \ {0}]
      /\ MaxNeed(g) \in Nat /\ \A j \in Jobs : g.need[j] <= MaxNeed(g)
  BY GameFacts
<1>2. ASSUME c \in CountsWithin(g) PROVE c \in [Jobs -> Nat] /\ \A j \in Jobs : c[j] <= g.need[j]
  BY <1>1, <1>2 DEF CountsWithin
<1>3. ASSUME c \in [Jobs -> Nat], \A j \in Jobs : c[j] <= g.need[j] PROVE c \in CountsWithin(g)
  <2>1. \A j \in Jobs : c[j] \in 0..MaxNeed(g)
    BY <1>1, <1>3
  <2>2. c \in [Jobs -> 0..MaxNeed(g)]
    BY <1>3, <2>1
  <2> QED  BY <1>3, <2>2 DEF CountsWithin
<1> QED  BY <1>2, <1>3

LEMMA OptionFacts ==
  ASSUME NEW g \in Games, NEW r \in SUBSET Identities, NEW c \in CountsWithin(g), NEW a \in Options(g, r, c)
  PROVE  /\ a[1] \in Jobs /\ a[2] \in r /\ a[1] \in g.compat[a[2]] /\ c[a[1]] < g.need[a[1]]
         /\ WithPass(c, a[1]) \in CountsWithin(g)
         /\ r \ {a[2]} \in SUBSET Identities /\ Cardinality(r) \in Nat
         /\ Cardinality(r) > 0 /\ Cardinality(r \ {a[2]}) = Cardinality(r) - 1
<1>1. a[1] \in Jobs /\ a[2] \in r /\ a[1] \in g.compat[a[2]] /\ c[a[1]] < g.need[a[1]]
  BY DEF Options
<1>2. c \in [Jobs -> Nat] /\ \A j \in Jobs : c[j] <= g.need[j]
  BY CountFacts
<1>3. WithPass(c, a[1]) \in [Jobs -> Nat] /\ \A j \in Jobs : WithPass(c, a[1])[j] <= g.need[j]
  <2>1. g.need \in [Jobs -> Nat \ {0}]
    BY GameFacts
  <2> QED  BY <1>1, <1>2, <2>1 DEF WithPass
<1>4. WithPass(c, a[1]) \in CountsWithin(g)
  BY <1>3, CountFacts
<1>5. IsFiniteSet(r) /\ Cardinality(r) \in Nat
  BY IdentitiesAssumption, FS_Subset, FS_CardinalityType
<1>6. Cardinality(r \ {a[2]}) = Cardinality(r) - 1 /\ Cardinality(r \ {a[2]}) \in Nat
  <2>1. IsFiniteSet(r \ {a[2]})
    BY <1>5, FS_Subset
  <2> QED  BY <1>1, <1>5, <2>1, FS_RemoveElement, FS_CardinalityType
<1> QED  BY <1>1, <1>4, <1>5, <1>6

LEMMA PositionIs ==
  ASSUME NEW g, NEW k, NEW p
  PROVE  p \in Positions(g, k) <=>
           \E r \in SUBSET Identities, c \in CountsWithin(g), b \in 0..g.allowance :
             Cardinality(r) = k /\ p = <<r, c, b>>
BY DEF Positions

\* What a solution depends on.
SameBelow(below, other, g, r, c, b) ==
  \A a \in Options(g, r, c) :
    /\ Worst(below, r, c, b, a[1], a[2]) = Worst(other, r, c, b, a[1], a[2])
    /\ Optimistic(below, r, c, a[1], a[2]) = Optimistic(other, r, c, a[1], a[2])

LEMMA SolutionsAgree ==
  ASSUME NEW g, NEW r, NEW c, NEW b, NEW below, NEW other, SameBelow(below, other, g, r, c, b)
  PROVE  Solution(g, below, r, c, b) = Solution(g, other, r, c, b)
<1> DEFINE O == Options(g, r, c)
           W(x) == [a \in O |-> Worst(x, r, c, b, a[1], a[2])]
           R(x, w) == [a \in DOMAIN w |-> RankOf(g, w[a], Optimistic(x, r, c, a[1], a[2]), a[1], a[2])]
<1>1. W(below) = W(other)
  BY DEF SameBelow
<1>2. \A w : DOMAIN w = O => R(below, w) = R(other, w)
  BY DEF SameBelow
<1>3. DOMAIN W(below) = O
  OBVIOUS
<1>4. BestRanked(g, below, r, c, W(below)) = BestRanked(g, other, r, c, W(other))
  <2>1. BestRanked(g, below, r, c, W(below)) = BestOption(R(below, W(below)), W(below))
    BY Zenon DEF BestRanked
  <2>2. BestRanked(g, other, r, c, W(other)) = BestOption(R(other, W(other)), W(other))
    BY Zenon DEF BestRanked
  <2>3. R(below, W(below)) = R(other, W(below))
    BY <1>2, <1>3
  <2> HIDE DEF W, R
  <2> QED  BY <1>1, <2>1, <2>2, <2>3
<1>5. /\ O # {} => Solution(g, below, r, c, b) = BestRanked(g, below, r, c, W(below))
      /\ O # {} => Solution(g, other, r, c, b) = BestRanked(g, other, r, c, W(other))
      /\ O = {} => Solution(g, below, r, c, b) = Solution(g, other, r, c, b)
  BY Zenon DEF Solution
<1> HIDE DEF O, W
<1> QED  BY <1>4, <1>5

\* The cache solves each position from itself.
Solves(C, g) ==
  /\ DOMAIN C = (SUBSET Identities) \X CountsWithin(g) \X (0..g.allowance)
  /\ \A r \in SUBSET Identities : \A c \in CountsWithin(g) : \A b \in 0..g.allowance :
       C[<<r, c, b>>] = Solution(g, C, r, c, b)

LEMMA SolverSolves ==
  ASSUME NEW g \in Games
  PROVE  Solves(Solved(g), g)
<1> DEFINE C == Solved(g)
<1>1. /\ DOMAIN C = UNION {Positions(g, k) : k \in 0..AllOf}
      /\ \A k \in 0..AllOf : \A p \in Positions(g, k) :
           \E below : /\ C[p] = Solution(g, below, p[1], p[2], p[3])
                      /\ k > 0 => \A q \in Positions(g, k - 1) : below[q] = C[q]
  <2>1. LayeredCache(C, FALSE, g)
    BY SolvedCache
  <2>2. /\ \A k : PositionsOf(FALSE, g, k) = Positions(g, k)
        /\ \A below, p : SolutionAt(FALSE, g, below, p) = Solution(g, below, p[1], p[2], p[3])
    BY DEF PositionsOf, SolutionAt
  <2> HIDE DEF C
  <2>3. DOMAIN C = UNION {PositionsOf(FALSE, g, k) : k \in 0..AllOf}
    BY <2>1 DEF LayeredCache
  <2>4. DOMAIN C = UNION {Positions(g, k) : k \in 0..AllOf}
    BY <2>2, <2>3
  <2>5. ASSUME NEW k \in 0..AllOf, NEW p \in Positions(g, k)
        PROVE  \E below : /\ C[p] = Solution(g, below, p[1], p[2], p[3])
                          /\ k > 0 => \A q \in Positions(g, k - 1) : below[q] = C[q]
    <3>1. p \in PositionsOf(FALSE, g, k)
      BY <2>2
    <3>2. PICK below : /\ C[p] = SolutionAt(FALSE, g, below, p)
                       /\ k > 0 => \A q \in PositionsOf(FALSE, g, k - 1) : below[q] = C[q]
      BY <2>1, <3>1 DEF LayeredCache
    <3>3. C[p] = Solution(g, below, p[1], p[2], p[3])
      BY <2>2, <3>2
    <3>4. k > 0 => \A q \in Positions(g, k - 1) : below[q] = C[q]
      BY <2>2, <3>2
    <3> QED  BY <3>3, <3>4
  <2> QED  BY <2>4, <2>5
<1> HIDE DEF C
<1>2. g.allowance \in Nat
  BY GameFacts
<1>3. \A r \in SUBSET Identities : Cardinality(r) \in 0..AllOf
  <2> SUFFICES ASSUME NEW r \in SUBSET Identities PROVE Cardinality(r) \in 0..AllOf
    OBVIOUS
  <2>1. IsFiniteSet(r) /\ Cardinality(r) <= Cardinality(Identities)
    BY IdentitiesAssumption, FS_Subset
  <2>2. Cardinality(r) \in Nat /\ Cardinality(Identities) \in Nat
    BY <2>1, IdentitiesAssumption, FS_CardinalityType
  <2> QED  BY <2>1, <2>2 DEF AllOf
<1>4. DOMAIN C = (SUBSET Identities) \X CountsWithin(g) \X (0..g.allowance)
  <2>1. ASSUME NEW p \in DOMAIN C PROVE p \in (SUBSET Identities) \X CountsWithin(g) \X (0..g.allowance)
    BY <1>1, <2>1, PositionIs
  <2>2. ASSUME NEW p \in (SUBSET Identities) \X CountsWithin(g) \X (0..g.allowance) PROVE p \in DOMAIN C
    <3>1. PICK r \in SUBSET Identities, c \in CountsWithin(g), b \in 0..g.allowance : p = <<r, c, b>>
      OBVIOUS
    <3>2. p \in Positions(g, Cardinality(r)) /\ Cardinality(r) \in 0..AllOf
      BY <1>3, <3>1, PositionIs
    <3> QED  BY <1>1, <3>2
  <2> QED  BY <2>1, <2>2
<1>5. ASSUME NEW r \in SUBSET Identities, NEW c \in CountsWithin(g), NEW b \in 0..g.allowance
      PROVE  C[<<r, c, b>>] = Solution(g, C, r, c, b)
  <2> DEFINE k == Cardinality(r)
  <2>1. <<r, c, b>> \in Positions(g, k) /\ k \in 0..AllOf
    BY <1>3, PositionIs
  <2>2. PICK below : /\ C[<<r, c, b>>] = Solution(g, below, r, c, b)
                     /\ k > 0 => \A q \in Positions(g, k - 1) : below[q] = C[q]
    BY <1>1, <2>1
  <2>3. ASSUME NEW a \in Options(g, r, c)
        PROVE  /\ Worst(below, r, c, b, a[1], a[2]) = Worst(C, r, c, b, a[1], a[2])
               /\ Optimistic(below, r, c, a[1], a[2]) = Optimistic(C, r, c, a[1], a[2])
    <3> DEFINE s == r \ {a[2]}
               d == WithPass(c, a[1])
    <3>1. d \in CountsWithin(g) /\ s \in SUBSET Identities /\ k > 0 /\ Cardinality(s) = k - 1
      BY OptionFacts
    <3> HIDE DEF s, d
    <3>2. \A x \in CountsWithin(g) : \A e \in 0..g.allowance : below[<<s, x, e>>] = C[<<s, x, e>>]
      BY <2>2, <3>1, PositionIs
    <3>3. 0 \in 0..g.allowance /\ (b # 0 => b - 1 \in 0..g.allowance)
      BY <1>2
    <3>4. /\ below[<<s, d, b>>] = C[<<s, d, b>>]
          /\ below[<<s, d, 0>>] = C[<<s, d, 0>>]
          /\ b # 0 => below[<<s, c, b - 1>>] = C[<<s, c, b - 1>>]
      BY <3>1, <3>2, <3>3
    <3>5. Optimistic(below, r, c, a[1], a[2]) = Optimistic(C, r, c, a[1], a[2])
      BY <3>4 DEF Optimistic, s, d
    <3>6. Worst(below, r, c, b, a[1], a[2]) = Worst(C, r, c, b, a[1], a[2])
      <4>1. CASE b = 0
        BY <3>4, <4>1 DEF Worst, s, d
      <4>2. CASE b # 0
        BY <3>4, <4>2 DEF Worst, s, d
      <4> QED  BY <4>1, <4>2
    <3> QED  BY <3>5, <3>6
  <2>4. SameBelow(below, C, g, r, c, b)
    BY <2>3 DEF SameBelow
  <2> QED  BY <2>2, <2>4, SolutionsAgree
<1>6. Solves(C, g)
  BY <1>4, <1>5 DEF Solves
<1> QED  BY <1>6 DEF C

LEMMA LeastOfTwo ==
  ASSUME NEW x \in Int, NEW y \in Int
  PROVE  Least({x, y}) \in {x, y} /\ Least({x, y}) <= x /\ Least({x, y}) <= y
<1>1. \E n \in {x, y} : \A m \in {x, y} : n <= m
  OBVIOUS
<1>2. Least({x, y}) \in {x, y} /\ \A m \in {x, y} : Least({x, y}) <= m
  BY <1>1 DEF Least
<1> QED  BY <1>2

\* The option of the least rank is chosen.
LEMMA BestOptionIs ==
  ASSUME NEW O, IsFiniteSet(O), O # {}, NEW ranks \in [O -> Int], NEW worsts
  PROVE  \E a \in O : /\ BestOption(ranks, worsts) = [value |-> worsts[a], moves |-> {a}]
                      /\ \A o \in O : ranks[a] <= ranks[o]
<1> DEFINE S == {ranks[o] : o \in O}
<1>1. IsFiniteSet(S)
  BY GivesFinitely
<1>2. S \subseteq Int /\ S # {}
  OBVIOUS
<1>3. Least(S) \in S /\ \A m \in S : Least(S) <= m
  <2> HIDE DEF S
  <2> QED  BY <1>1, <1>2, LeastIs
<1>4. PICK a \in O : \A o \in O : ranks[a] <= ranks[o]
  BY <1>3
<1>5. Leading(ranks) \in O /\ \A o \in O : ranks[Leading(ranks)] <= ranks[o]
  BY <1>4 DEF Leading
<1>6. BestOption(ranks, worsts) = [value |-> worsts[Leading(ranks)], moves |-> {Leading(ranks)}]
  BY DEF BestOption, Led
<1> QED  BY <1>5, <1>6

LEMMA OptionsFinite ==
  ASSUME NEW g, NEW r \in SUBSET Identities, NEW c
  PROVE  IsFiniteSet(Options(g, r, c))
<1>1. IsFiniteSet(r)
  BY IdentitiesAssumption, FS_Subset
<1>2. IsFiniteSet(Jobs \X r)
  BY <1>1, JobsAssumption, FS_Product
<1>3. Options(g, r, c) \subseteq Jobs \X r
  BY DEF Options
<1> QED  BY <1>2, <1>3, FS_Subset

LEMMA JobsCounted ==
  /\ Cardinality(Jobs) \in Nat
  /\ \A J \in SUBSET Jobs : IsFiniteSet(J) /\ Cardinality(J) \in 0..Cardinality(Jobs)
<1>1. Cardinality(Jobs) \in Nat
  BY JobsAssumption, FS_CardinalityType
<1>2. ASSUME NEW J \in SUBSET Jobs PROVE IsFiniteSet(J) /\ Cardinality(J) \in 0..Cardinality(Jobs)
  <2>1. IsFiniteSet(J) /\ Cardinality(J) <= Cardinality(Jobs)
    BY JobsAssumption, FS_Subset
  <2>2. Cardinality(J) \in Nat
    BY <2>1, FS_CardinalityType
  <2> QED  BY <1>1, <2>1, <2>2
<1> QED  BY <1>1, <1>2

\* A sort key is a number.
LEMMA RankIsNumber ==
  ASSUME NEW g \in Games, NEW r \in SUBSET Identities, NEW c \in CountsWithin(g), NEW a \in Options(g, r, c),
         NEW worst \in Int, NEW optimistic \in Int
  PROVE  RankOf(g, worst, optimistic, a[1], a[2]) \in Int
<1>1. a[1] \in Jobs /\ a[2] \in r
  BY OptionFacts
<1>2. a[1] \in Nat /\ a[2] \in Nat /\ Identities # {}
  <2>1. a[2] \in Identities
    BY <1>1
  <2> QED  BY <1>1, <2>1, IdentitiesAssumption, JobsAssumption
<1>3. Greatest(Identities) \in Nat
  <2>1. Identities \subseteq Int /\ IsFiniteSet(Identities)
    BY IdentitiesAssumption
  <2>2. Greatest(Identities) \in Identities
    BY <1>2, <2>1, GreatestIs
  <2> QED  BY <2>2, IdentitiesAssumption
<1>4. Cardinality(g.compat[a[2]]) \in Nat /\ Weight \in Nat
  <2>1. g.compat[a[2]] \in SUBSET Jobs
    BY <1>1, GameFacts
  <2> QED  BY <2>1, JobsCounted DEF Weight
<1> DEFINE last == 1 + Greatest(Identities)
           card == Cardinality(g.compat[a[2]])
           top == (Weight - worst) * Weight - optimistic
           mid == (top * Weight + card) * Weight * last
<1>5. \A x, y \in Int : x * y \in Int
  OBVIOUS
<1>6. last \in Int /\ card \in Int /\ Weight \in Int /\ a[1] \in Int /\ a[2] \in Int
  BY <1>2, <1>3, <1>4
<1>7. RankOf(g, worst, optimistic, a[1], a[2]) = mid + a[1] * last + a[2]
  BY Zenon DEF RankOf
<1> HIDE DEF last, card
<1>8. top \in Int
  <2>1. Weight - worst \in Int
    BY <1>6
  <2>2. (Weight - worst) * Weight \in Int
    BY <1>5, <1>6, <2>1
  <2> QED  BY <2>2
<1> HIDE DEF top
<1>9. mid \in Int
  <2>1. top * Weight \in Int
    BY <1>5, <1>6, <1>8
  <2>2. top * Weight + card \in Int
    BY <1>6, <2>1
  <2>3. (top * Weight + card) * Weight \in Int
    BY <1>5, <1>6, <2>2
  <2> QED  BY <1>5, <1>6, <2>3
<1>10. a[1] * last \in Int
  BY <1>5, <1>6
<1> HIDE DEF mid
<1>11. mid + a[1] * last + a[2] \in Int
  BY <1>6, <1>9, <1>10
<1> QED  BY <1>7, <1>11

\* Values are numbers of jobs; a position with options leads to one of them
\* and has its worst value.
Valued(C, g, r) ==
  \A c \in CountsWithin(g) : \A b \in 0..g.allowance : C[<<r, c, b>>].value \in 0..Cardinality(Jobs)
WorstsOf(C, r, c, b, O) == [a \in O |-> Worst(C, r, c, b, a[1], a[2])]
RanksOf(C, g, r, c, b, O) ==
  [a \in O |-> RankOf(g, Worst(C, r, c, b, a[1], a[2]), Optimistic(C, r, c, a[1], a[2]), a[1], a[2])]
LeadsAt(C, g, r, c, b) ==
  \E a \in Options(g, r, c) :
    /\ C[<<r, c, b>>] = [value |-> Worst(C, r, c, b, a[1], a[2]), moves |-> {a}]
    /\ \A o \in Options(g, r, c) : RanksOf(C, g, r, c, b, Options(g, r, c))[a] <= RanksOf(C, g, r, c, b, Options(g, r, c))[o]

\* The positions after an option.
LEMMA Children ==
  ASSUME NEW g \in Games, NEW C, NEW r \in SUBSET Identities,
         NEW c \in CountsWithin(g), NEW b \in 0..g.allowance, NEW a \in Options(g, r, c),
         Valued(C, g, r \ {a[2]})
  PROVE  /\ C[<<r \ {a[2]}, WithPass(c, a[1]), b>>].value \in 0..Cardinality(Jobs)
         /\ C[<<r \ {a[2]}, WithPass(c, a[1]), 0>>].value \in 0..Cardinality(Jobs)
         /\ b # 0 => C[<<r \ {a[2]}, c, b - 1>>].value \in 0..Cardinality(Jobs)
<1>1. WithPass(c, a[1]) \in CountsWithin(g)
  BY OptionFacts
<1>2. 0 \in 0..g.allowance /\ (b # 0 => b - 1 \in 0..g.allowance)
  BY GameFacts
<1> QED  BY <1>1, <1>2 DEF Valued

WorstFits(worst, C, r, c, b, a) ==
  /\ worst \in 0..Cardinality(Jobs)
  /\ worst <= C[<<r \ {a[2]}, WithPass(c, a[1]), b>>].value
  /\ b # 0 => worst <= C[<<r \ {a[2]}, c, b - 1>>].value
  /\ \/ worst = C[<<r \ {a[2]}, WithPass(c, a[1]), b>>].value
     \/ b # 0 /\ worst = C[<<r \ {a[2]}, c, b - 1>>].value

LEMMA WorstIs ==
  ASSUME NEW g \in Games, NEW C, NEW r \in SUBSET Identities,
         NEW c \in CountsWithin(g), NEW b \in 0..g.allowance, NEW a \in Options(g, r, c),
         Valued(C, g, r \ {a[2]})
  PROVE  WorstFits(Worst(C, r, c, b, a[1], a[2]), C, r, c, b, a)
<1> DEFINE x == C[<<r \ {a[2]}, WithPass(c, a[1]), b>>].value
           y == C[<<r \ {a[2]}, c, b - 1>>].value
           worst == Worst(C, r, c, b, a[1], a[2])
<1>1. x \in 0..Cardinality(Jobs) /\ (b # 0 => y \in 0..Cardinality(Jobs))
  BY Children
<1>2. worst = IF b = 0 THEN x ELSE Least({x, y})
  BY DEF Worst
<1> HIDE DEF x, y, worst
<1>3. CASE b = 0
  BY <1>1, <1>2, <1>3, JobsCounted DEF x, y, worst, WorstFits
<1>4. CASE b # 0
  <2>1. x \in Int /\ y \in Int
    BY <1>1, <1>4, JobsCounted
  <2>2. Least({x, y}) \in {x, y} /\ Least({x, y}) <= x /\ Least({x, y}) <= y
    BY <2>1, LeastOfTwo
  <2>3. worst \in {x, y} /\ worst <= x /\ worst <= y
    BY <1>2, <1>4, <2>2
  <2>4. worst \in 0..Cardinality(Jobs)
    BY <1>1, <1>4, <2>3
  <2> QED  BY <1>4, <2>3, <2>4 DEF x, y, worst, WorstFits
<1> QED  BY <1>3, <1>4

LEMMA Leads ==
  ASSUME NEW g \in Games, NEW C, Solves(C, g), NEW r \in SUBSET Identities,
         NEW c \in CountsWithin(g), NEW b \in 0..g.allowance, Options(g, r, c) # {},
         \A i \in r : Valued(C, g, r \ {i})
  PROVE  LeadsAt(C, g, r, c, b)
<1> DEFINE O == Options(g, r, c)
           W == WorstsOf(C, r, c, b, O)
           R == RanksOf(C, g, r, c, b, O)
<1>1. \A a \in O : a[2] \in r
  BY OptionFacts
<1>2. R \in [O -> Int]
  <2> SUFFICES ASSUME NEW a \in O
               PROVE  RankOf(g, Worst(C, r, c, b, a[1], a[2]), Optimistic(C, r, c, a[1], a[2]), a[1], a[2]) \in Int
    BY DEF RanksOf
  <2>1. Valued(C, g, r \ {a[2]})
    BY <1>1
  <2>2. Worst(C, r, c, b, a[1], a[2]) \in 0..Cardinality(Jobs)
    BY <2>1, WorstIs DEF WorstFits
  <2>3. Optimistic(C, r, c, a[1], a[2]) \in 0..Cardinality(Jobs)
    BY <2>1, Children DEF Optimistic
  <2>4. Worst(C, r, c, b, a[1], a[2]) \in Int /\ Optimistic(C, r, c, a[1], a[2]) \in Int
    BY <2>2, <2>3, JobsCounted
  <2> QED  BY <2>4, RankIsNumber
<1>3. C[<<r, c, b>>] = BestOption(R, W)
  <2>1. C[<<r, c, b>>] = Solution(g, C, r, c, b)
    BY DEF Solves
  <2>2. Solution(g, C, r, c, b) = BestRanked(g, C, r, c, [a \in O |-> Worst(C, r, c, b, a[1], a[2])])
    BY Zenon DEF Solution
  <2>3. [a \in O |-> Worst(C, r, c, b, a[1], a[2])] = W
    BY DEF WorstsOf
  <2>4. BestRanked(g, C, r, c, W) =
          BestOption([a \in DOMAIN W |-> RankOf(g, W[a], Optimistic(C, r, c, a[1], a[2]), a[1], a[2])], W)
    BY Zenon DEF BestRanked
  <2>5. [a \in DOMAIN W |-> RankOf(g, W[a], Optimistic(C, r, c, a[1], a[2]), a[1], a[2])] = R
    BY DEF WorstsOf, RanksOf
  <2> HIDE DEF W, R, O
  <2> QED  BY <2>1, <2>2, <2>3, <2>4, <2>5
<1>4. IsFiniteSet(O)
  BY OptionsFinite
<1>5. \A a \in O : W[a] = Worst(C, r, c, b, a[1], a[2])
  BY DEF WorstsOf
<1> HIDE DEF W
<1>6. PICK a \in O : /\ BestOption(R, W) = [value |-> W[a], moves |-> {a}]
                     /\ \A o \in O : R[a] <= R[o]
  <2> HIDE DEF R, O
  <2> QED  BY <1>2, <1>4, BestOptionIs DEF O
<1>7. C[<<r, c, b>>] = [value |-> Worst(C, r, c, b, a[1], a[2]), moves |-> {a}]
  BY <1>3, <1>5, <1>6
<1> QED  BY <1>6, <1>7 DEF LeadsAt

LEMMA AllValued ==
  ASSUME NEW g \in Games, NEW C, Solves(C, g)
  PROVE  \A r \in SUBSET Identities : Valued(C, g, r)
<1> DEFINE Good == {r \in SUBSET Identities : Valued(C, g, r)}
<1>1. ASSUME NEW r \in SUBSET Identities, \A i \in r : Valued(C, g, r \ {i})
      PROVE  Valued(C, g, r)
  <2> SUFFICES ASSUME NEW c \in CountsWithin(g), NEW b \in 0..g.allowance
               PROVE  C[<<r, c, b>>].value \in 0..Cardinality(Jobs)
    BY DEF Valued
  <2>1. CASE Options(g, r, c) = {}
    <3>1. C[<<r, c, b>>].value = Done(g, c)
      <4>1. C[<<r, c, b>>] = Solution(g, C, r, c, b)
        BY DEF Solves
      <4>2. Solution(g, C, r, c, b) = [value |-> Done(g, c), moves |-> {}]
        BY <2>1, Zenon DEF Solution
      <4> QED  BY <4>1, <4>2
    <3>2. Done(g, c) \in 0..Cardinality(Jobs)
      BY JobsCounted DEF Done
    <3> QED  BY <3>1, <3>2
  <2>2. CASE Options(g, r, c) # {}
    <3>1. PICK a \in Options(g, r, c) : C[<<r, c, b>>] = [value |-> Worst(C, r, c, b, a[1], a[2]), moves |-> {a}]
      <4>1. LeadsAt(C, g, r, c, b)
        BY <1>1, <2>2, Leads
      <4> QED  BY <4>1 DEF LeadsAt
    <3>2. a[2] \in r
      BY OptionFacts
    <3>3. Worst(C, r, c, b, a[1], a[2]) \in 0..Cardinality(Jobs)
      BY <1>1, <3>2, WorstIs DEF WorstFits
    <3> QED  BY <3>1, <3>3
  <2> QED  BY <2>1, <2>2
<1>2. {} \in Good
  BY <1>1
<1>3. ASSUME NEW r \in SUBSET Identities, r # {}, \A i \in r : r \ {i} \in Good PROVE r \in Good
  BY <1>1, <1>3
<1>4. SUBSET Identities \subseteq Good
  <2> HIDE DEF Good
  <2> QED  BY <1>2, <1>3, IdentitiesAssumption, AllSubsets
<1> QED  BY <1>4

-------------------------------------------------------------------------------
(* What a planner pledges                                                  *)

PlayTyped ==
  /\ game \in Games /\ unused \in SUBSET Identities /\ passes \in CountsWithin(game)
  /\ failures \in Nat /\ attempts \in [Jobs -> Nat] /\ rounds \in Nat
  /\ controller \in Controllers /\ cap \in Caps
  /\ at \in {"asked", "play", "deferred", "done"} /\ fallen \in SUBSET Identities
  /\ rootValue \in Nat \cup {Unknown} /\ pledged \in Nat \cup {Unknown}
\* A planner assigns one identity at a time, so the cap of a job is only
\* reached when all identities are spent.
AttemptsPaid ==
  controller \in Planning => \A j \in Jobs : attempts[j] + Cardinality(unused) <= Cardinality(Identities)
\* Who played on was certified before.
CertifiedFirst ==
  controller = CertifiedPlanner /\ at \in {"play", "done"} =>
    rootValue = Cardinality(Jobs) /\ cap >= Cardinality(Identities)
\* The inductive invariant: the value of the position is what was pledged, and
\* the attempts left pay for it.
PlayInv == PlayTyped /\ AttemptsPaid /\ PromiseHeld /\ CertifiedFirst

LEMMA CacheSolves ==
  ASSUME ExactAssumption, NEW g \in Games
  PROVE  Solves(Cache[g], g) /\ \A r \in SUBSET Identities : Valued(Cache[g], g, r)
<1>1. Cache[g] = Solved(g)
  BY DEF ExactAssumption, Filled
<1>2. Solves(Cache[g], g)
  BY <1>1, SolverSolves
<1> QED  BY <1>2, AllValued

\* The value of a position, and what is chosen there.
LEMMA PositionFacts ==
  ASSUME ExactAssumption, PlayTyped
  PROVE  /\ Remaining \in 0..game.allowance
         /\ InScope => Remaining = game.allowance - failures
         /\ Value \in 0..Cardinality(Jobs)
         /\ Options(game, unused, passes) = {} => Value = Cardinality(Completed) /\ Moves = {}
         /\ Options(game, unused, passes) # {} =>
              \E a \in Options(game, unused, passes) :
                Moves = {a} /\ Value = Worst(Cache[game], unused, passes, Remaining, a[1], a[2])
<1> DEFINE C == Cache[game]
<1>1. game \in Games /\ unused \in SUBSET Identities /\ passes \in CountsWithin(game) /\ failures \in Nat
  BY DEF PlayTyped
<1>2. game.allowance \in Nat
  BY <1>1, GameFacts
<1>3. Remaining \in 0..game.allowance /\ (InScope => Remaining = game.allowance - failures)
  BY <1>1, <1>2 DEF Remaining, InScope
<1>4. Solves(C, game) /\ \A r \in SUBSET Identities : Valued(C, game, r)
  BY <1>1, CacheSolves
<1>5. Value = C[<<unused, passes, Remaining>>].value /\ Moves = C[<<unused, passes, Remaining>>].moves
  BY Zenon DEF Value, Moves, Position
<1> HIDE DEF C
<1>6. Value \in 0..Cardinality(Jobs)
  BY <1>1, <1>3, <1>4, <1>5 DEF Valued
<1>7. ASSUME Options(game, unused, passes) = {}
      PROVE  Value = Cardinality(Completed) /\ Moves = {}
  <2>1. C[<<unused, passes, Remaining>>] = Solution(game, C, unused, passes, Remaining)
    BY <1>1, <1>3, <1>4 DEF Solves
  <2>2. Solution(game, C, unused, passes, Remaining) = [value |-> Done(game, passes), moves |-> {}]
    BY <1>7, Zenon DEF Solution
  <2>3. Done(game, passes) = Cardinality(Completed)
    BY Zenon DEF Done, Completed
  <2> QED  BY <1>5, <2>1, <2>2, <2>3
<1>8. ASSUME Options(game, unused, passes) # {}
      PROVE  \E a \in Options(game, unused, passes) :
               Moves = {a} /\ Value = Worst(C, unused, passes, Remaining, a[1], a[2])
  <2>1. LeadsAt(C, game, unused, passes, Remaining)
    <3>1. \A i \in unused : unused \ {i} \in SUBSET Identities
      BY <1>1
    <3> QED  BY <1>1, <1>3, <1>4, <1>8, <3>1, Leads
  <2> QED  BY <1>5, <2>1 DEF LeadsAt
<1> QED  BY <1>3, <1>6, <1>7, <1>8 DEF C

\* A planner selects nobody where there is no option, and one option that
\* keeps its value elsewhere.
LEMMA PlannerSelects ==
  ASSUME ExactAssumption, PlayTyped, controller \in Planning, NEW selection \in Selections
  PROVE  \/ selection = {} /\ Options(game, unused, passes) = {}
         \/ \E a \in Options(game, unused, passes) : selection = {a} /\ Keeps(a)
<1> DEFINE O == Options(game, unused, passes)
<1>1. (Moves = {} /\ O = {}) \/ \E a \in O : Moves = {a} /\ Keeps(a)
  <2>1. CASE O = {}
    BY <2>1, PositionFacts
  <2>2. CASE O # {}
    <3>1. PICK a \in O : Moves = {a} /\ Value = Worst(Cache[game], unused, passes, Remaining, a[1], a[2])
      BY <2>2, PositionFacts
    <3>2. Value \in Int
      BY PositionFacts, JobsCounted
    <3>3. Keeps(a)
      BY <3>1, <3>2 DEF Keeps
    <3> QED  BY <3>1, <3>3
  <2> QED  BY <2>1, <2>2
<1>2. CASE controller \in {CertifiedPlanner, Exact}
  <2>1. Selections = {Moves}
    <3>1. controller # Filtered /\ controller # Shield /\ controller # Wave
      BY <1>2 DEF CertifiedPlanner, Exact, Shield, Filtered, Wave
    <3> QED  BY <1>2, <3>1 DEF Selections
  <2> QED  BY <1>1, <2>1
<1>3. CASE controller = Shield
  <2>1. Selections = {Shielded(p) : p \in Proposals}
    <3>1. controller # CertifiedPlanner /\ controller # Exact /\ controller # Filtered /\ controller # Wave
      BY <1>3 DEF CertifiedPlanner, Exact, Shield, Filtered, Wave
    <3> QED  BY <1>3, <3>1 DEF Selections
  <2>2. PICK p \in Proposals : selection = Shielded(p)
    BY <2>1
  <2>3. CASE \A a \in p : Keeps(a)
    <3>1. selection = p
      BY <2>2, <2>3 DEF Shielded
    <3>2. (p = {} /\ O = {}) \/ \E a \in O : p = {a}
      BY <2>2 DEF Proposals
    <3> QED  BY <2>3, <3>1, <3>2
  <2>4. CASE ~ \A a \in p : Keeps(a)
    <3>1. selection = Moves
      BY <2>2, <2>4 DEF Shielded
    <3> QED  BY <1>1, <3>1
  <2> QED  BY <2>3, <2>4
<1> QED  BY <1>2, <1>3 DEF Planning

\* A layout of one assignment.
LEMMA PlanOfOne ==
  ASSUME NEW j \in Jobs, NEW i \in Identities
  PROVE  /\ PlanOf({<<j, i>>}) = [h \in Jobs |-> IF h = j THEN {i} ELSE {}]
         /\ Assigned(PlanOf({<<j, i>>})) = {i}
         /\ Assigned(PlanOf({})) = {}
<1>1. PlanOf({<<j, i>>}) = [h \in Jobs |-> IF h = j THEN {i} ELSE {}]
  <2>1. \A h \in Jobs : {k \in Identities : <<h, k>> \in {<<j, i>>}} = IF h = j THEN {i} ELSE {}
    OBVIOUS
  <2> QED  BY <2>1 DEF PlanOf
<1>2. Assigned([h \in Jobs |-> IF h = j THEN {i} ELSE {}]) = {i}
  BY DEF Assigned
<1>3. Assigned(PlanOf({})) = {}
  BY DEF Assigned, PlanOf
<1> QED  BY <1>1, <1>2, <1>3

\* What a planner's turn does: one option is assigned, and fails or passes.
PassTurn(a) ==
  /\ unused' = unused \ {a[2]} /\ passes' = WithPass(passes, a[1]) /\ failures' = failures
FailTurn(a) ==
  /\ unused' = unused \ {a[2]} /\ passes' = passes /\ failures' = failures + 1
LEMMA PlannerTurn ==
  ASSUME ExactAssumption, PlayTyped, controller \in Planning, PlayTurn
  PROVE  \E a \in Options(game, unused, passes) :
           /\ Keeps(a)
           /\ PassTurn(a) \/ FailTurn(a)
           /\ attempts' = [attempts EXCEPT ![a[1]] = @ + 1]
<1>0. game \in Games /\ unused \in SUBSET Identities /\ passes \in CountsWithin(game)
      /\ failures \in Nat /\ attempts \in [Jobs -> Nat]
  BY DEF PlayTyped
<1>1. PICK selection \in Selections :
        /\ Assigned(PlanOf(Affordable(selection))) # {}
        /\ \E failing \in Outcomes(PlanOf(Affordable(selection)), game.allowance + Excess) :
             PlayRound(PlanOf(Affordable(selection)), failing)
  BY Zenon DEF PlayTurn
<1>2. Affordable(selection) \subseteq selection /\ Affordable(selection) # {}
  <2>1. Assigned(PlanOf({})) = {}
    BY DEF Assigned, PlanOf
  <2> QED  BY <1>1, <2>1, Zenon DEF Affordable
<1>3. PICK a \in Options(game, unused, passes) : selection = {a} /\ Keeps(a)
  BY <1>2, PlannerSelects
<1>4. a[1] \in Jobs /\ a[2] \in unused /\ a[2] \in Identities /\ a = <<a[1], a[2]>>
      /\ passes[a[1]] < game.need[a[1]]
  BY <1>0 DEF Options
<1>5. Affordable(selection) = {<<a[1], a[2]>>}
  BY <1>2, <1>3, <1>4
<1> DEFINE layout == PlanOf({<<a[1], a[2]>>})
<1>6. layout = [h \in Jobs |-> IF h = a[1] THEN {a[2]} ELSE {}] /\ Assigned(layout) = {a[2]}
  BY <1>4, PlanOfOne
<1>7. PICK failing \in Outcomes(layout, game.allowance + Excess) : PlayRound(layout, failing)
  BY <1>1, <1>5
<1>8. failing = {} \/ failing = {a[2]}
  BY <1>6 DEF Outcomes
<1> HIDE DEF layout
<1>9. /\ unused' = unused \ {a[2]}
      /\ failures' = failures + Cardinality(failing)
      /\ attempts' = [j \in Jobs |-> attempts[j] + Cardinality(layout[j])]
      /\ passes' = [j \in Jobs |->
           LET passed == passes[j] + Cardinality(layout[j] \ failing)
           IN  IF passed <= game.need[j] THEN passed ELSE game.need[j]]
  BY <1>6, <1>7 DEF PlayRound
<1>10. Cardinality({}) = 0 /\ Cardinality({a[2]}) = 1
  BY FS_EmptySet, FS_Singleton
<1>11. passes \in [Jobs -> Nat] /\ game.need \in [Jobs -> Nat \ {0}] /\ \A j \in Jobs : passes[j] <= game.need[j]
  BY <1>0, CountFacts, GameFacts
<1>12. attempts' = [attempts EXCEPT ![a[1]] = @ + 1]
  <2>1. \A j \in Jobs : attempts[j] + Cardinality(layout[j]) = IF j = a[1] THEN attempts[j] + 1 ELSE attempts[j]
    BY <1>0, <1>6, <1>10
  <2>2. attempts' = [j \in Jobs |-> IF j = a[1] THEN attempts[j] + 1 ELSE attempts[j]]
    BY <1>9, <2>1
  <2> QED  BY <1>0, <2>2
<1>13. CASE failing = {}
  <2>1. \A j \in Jobs : layout[j] \ failing = layout[j]
    BY <1>13
  <2>7. \A j \in Jobs : Cardinality(layout[j] \ failing) = IF j = a[1] THEN 1 ELSE 0
    BY <1>6, <1>10, <2>1
  <2>2. \A j \in Jobs : passes[j] + Cardinality(layout[j] \ failing) = IF j = a[1] THEN passes[j] + 1 ELSE passes[j]
    <3>1. \A j \in Jobs : passes[j] \in Nat
      BY <1>11
    <3> QED  BY <2>7, <3>1
  <2>3. \A j \in Jobs : (IF j = a[1] THEN passes[j] + 1 ELSE passes[j]) <= game.need[j]
    BY <1>4, <1>11
  <2>4. passes' = [j \in Jobs |-> IF j = a[1] THEN passes[j] + 1 ELSE passes[j]]
    BY <1>9, <2>2, <2>3
  <2>5. passes' = WithPass(passes, a[1])
    BY <1>11, <2>4 DEF WithPass
  <2>6. failures' = failures
    BY <1>0, <1>9, <1>10, <1>13
  <2> QED  BY <1>3, <1>9, <1>12, <2>5, <2>6 DEF PassTurn
<1>14. CASE failing = {a[2]}
  <2>1. \A j \in Jobs : layout[j] \ failing = {}
    BY <1>6, <1>14
  <2>2. \A j \in Jobs : passes[j] + Cardinality(layout[j] \ failing) = passes[j]
    <3>1. \A j \in Jobs : passes[j] \in Nat
      BY <1>11
    <3>2. \A j \in Jobs : Cardinality(layout[j] \ failing) = 0
      BY <1>10, <2>1
    <3> QED  BY <3>1, <3>2
  <2>3. passes' = [j \in Jobs |-> passes[j]]
    BY <1>9, <1>11, <2>2
  <2>4. passes' = passes
    BY <1>11, <2>3
  <2>5. failures' = failures + 1
    BY <1>9, <1>10, <1>14
  <2> QED  BY <1>3, <1>9, <1>12, <2>4, <2>5 DEF FailTurn
<1> QED  BY <1>8, <1>13, <1>14

\* What any turn leaves well typed.
LEMMA TurnTyped ==
  ASSUME ExactAssumption, PlayTyped, PlayTurn
  PROVE  PlayTyped'
<1>0. /\ game \in Games /\ unused \in SUBSET Identities /\ passes \in CountsWithin(game)
      /\ failures \in Nat /\ attempts \in [Jobs -> Nat] /\ rounds \in Nat
      /\ controller \in Controllers /\ cap \in Caps
      /\ at \in {"asked", "play", "deferred", "done"} /\ fallen \in SUBSET Identities
      /\ rootValue \in Nat \cup {Unknown}
  BY DEF PlayTyped
<1>1. PICK layout, failing :
        /\ layout \in [Jobs -> SUBSET Identities] /\ failing \in SUBSET Identities
        /\ PlayRound(layout, failing) /\ fallen' = fallen \cup failing
  <2>1. PICK selection \in Selections :
          \E failing \in Outcomes(PlanOf(Affordable(selection)), game.allowance + Excess) :
             /\ PlayRound(PlanOf(Affordable(selection)), failing)
             /\ fallen' = fallen \cup failing
    BY Zenon DEF PlayTurn
  <2> DEFINE layout == PlanOf(Affordable(selection))
  <2>2. layout \in [Jobs -> SUBSET Identities]
    BY DEF PlanOf
  <2>3. PICK failing \in Outcomes(layout, game.allowance + Excess) : PlayRound(layout, failing) /\ fallen' = fallen \cup failing
    BY <2>1
  <2> HIDE DEF layout
  <2>4. failing \in SUBSET Identities
    BY <2>2 DEF Outcomes, Assigned
  <2> QED  BY <2>2, <2>3, <2>4
<1>2. controller' = controller /\ cap' = cap /\ at' = at /\ rootValue' = rootValue
      /\ pledged' = IF controller \in Planning THEN Value ELSE Unknown
  BY DEF PlayTurn
<1>3. Value \in Nat
  BY PositionFacts, JobsCounted
<1>4. \A s \in SUBSET Identities : Cardinality(s) \in Nat
  BY IdentitiesAssumption, FS_Subset, FS_CardinalityType
<1>5. /\ game' = game /\ unused' = unused \ Assigned(layout)
      /\ failures' = failures + Cardinality(failing)
      /\ attempts' = [j \in Jobs |-> attempts[j] + Cardinality(layout[j])]
      /\ rounds' = rounds + 1
      /\ passes' = [j \in Jobs |->
           LET passed == passes[j] + Cardinality(layout[j] \ failing)
           IN  IF passed <= game.need[j] THEN passed ELSE game.need[j]]
  BY <1>1 DEF PlayRound
<1>6. unused' \in SUBSET Identities /\ failures' \in Nat /\ rounds' \in Nat /\ attempts' \in [Jobs -> Nat]
  <2>1. \A j \in Jobs : Cardinality(layout[j]) \in Nat
    BY <1>1, <1>4
  <2> QED  BY <1>0, <1>1, <1>4, <1>5, <2>1
<1>7. passes' \in CountsWithin(game)
  <2>1. passes \in [Jobs -> Nat] /\ game.need \in [Jobs -> Nat \ {0}]
    BY <1>0, CountFacts, GameFacts
  <2>2. \A j \in Jobs : Cardinality(layout[j] \ failing) \in Nat
    BY <1>1, <1>4
  <2>3. passes' \in [Jobs -> Nat] /\ \A j \in Jobs : passes'[j] <= game.need[j]
    BY <1>5, <2>1, <2>2
  <2> QED  BY <1>0, <2>3, CountFacts
<1>8. fallen' \in SUBSET Identities
  BY <1>0, <1>1
<1> QED  BY <1>0, <1>2, <1>3, <1>5, <1>6, <1>7, <1>8 DEF PlayTyped

\* The first position is one of the cache, and nothing is pledged.
LEMMA PlanInit == ASSUME ExactAssumption, ExactInit PROVE PlayInv
<1>1. /\ game \in Games /\ unused = Identities /\ passes = [j \in Jobs |-> 0] /\ failures = 0
      /\ attempts = [j \in Jobs |-> 0] /\ rounds = 0
      /\ controller \in Controllers /\ cap \in Caps
      /\ at = "asked" /\ fallen = {} /\ rootValue = Unknown /\ pledged = Unknown
  BY DEF ExactInit, PublicInit
<1>2. passes \in CountsWithin(game)
  <2>1. game.need \in [Jobs -> Nat \ {0}]
    BY <1>1, GameFacts
  <2>2. passes \in [Jobs -> Nat] /\ \A j \in Jobs : passes[j] <= game.need[j]
    BY <1>1, <2>1
  <2> QED  BY <1>1, <2>2, CountFacts
<1>3. PlayTyped
  BY <1>1, <1>2 DEF PlayTyped
<1>4. AttemptsPaid
  <2>1. Cardinality(Identities) \in Nat
    BY IdentitiesAssumption, FS_CardinalityType
  <2> QED  BY <1>1, <2>1 DEF AttemptsPaid
<1>5. PromiseHeld
  <2>1. Value \in 0..Cardinality(Jobs)
    BY <1>3, PositionFacts
  <2> QED  BY <1>1, <2>1, JobsCounted DEF PromiseHeld, Unknown
<1>6. CertifiedFirst
  BY <1>1 DEF CertifiedFirst
<1> QED  BY <1>3, <1>4, <1>5, <1>6 DEF PlayInv

\* The cap does not keep a planner from assigning while somebody is left.
LEMMA PlannerCanPay ==
  ASSUME PlayTyped, AttemptsPaid, controller \in Planning, cap >= Cardinality(Identities), Caps \subseteq Nat,
         NEW a \in Options(game, unused, passes)
  PROVE  attempts[a[1]] < cap
<1>1. /\ game \in Games /\ unused \in SUBSET Identities /\ passes \in CountsWithin(game)
      /\ attempts \in [Jobs -> Nat] /\ cap \in Nat
  BY DEF PlayTyped
<1>2. a[1] \in Jobs /\ Cardinality(unused) \in Nat /\ Cardinality(unused) > 0
  BY <1>1, OptionFacts
<1>3. attempts[a[1]] + Cardinality(unused) <= Cardinality(Identities) /\ Cardinality(Identities) \in Nat
  BY <1>2, IdentitiesAssumption, FS_CardinalityType DEF AttemptsPaid
<1> QED  BY <1>1, <1>2, <1>3

\* The certificate pledges the value of the position it is taken at.
LEMMA CertifyKeeps == ASSUME ExactAssumption, PlayInv, Certify PROVE PlayInv'
<1>1. /\ at = "asked"
      /\ rootValue' = IF controller \in Planning THEN Value ELSE Unknown
      /\ at' = IF controller = CertifiedPlanner /\ ~CertificatePassed THEN "deferred" ELSE "play"
      /\ game' = game /\ unused' = unused /\ passes' = passes /\ failures' = failures /\ attempts' = attempts
      /\ rounds' = rounds /\ controller' = controller /\ cap' = cap /\ fallen' = fallen /\ pledged' = pledged
  BY DEF Certify, publicState, others
<1>2. Value \in 0..Cardinality(Jobs) /\ Value \in Nat
  BY PositionFacts, JobsCounted DEF PlayInv
<1>3. PlayTyped'
  BY <1>1, <1>2 DEF PlayInv, PlayTyped
<1>4. AttemptsPaid'
  BY <1>1 DEF PlayInv, AttemptsPaid
<1>5. Value' = Value /\ InScope' = InScope
  BY <1>1 DEF Value, Position, Remaining, InScope
<1>6. PromiseHeld'
  BY <1>1, <1>2, <1>5 DEF PlayInv, PromiseHeld, Unknown
<1>7. CertifiedFirst'
  <2>1. CertifiedPlanner \in Planning
    BY DEF Planning
  <2> QED  BY <1>1, <2>1 DEF CertifiedFirst, CertificatePassed
<1> QED  BY <1>3, <1>4, <1>6, <1>7 DEF PlayInv

\* The value does not fall in a planner's turn, while no more fail than may.
LEMMA ValueKept ==
  ASSUME ExactAssumption, PlayTyped, NEW a \in Options(game, unused, passes), Keeps(a),
         PassTurn(a) \/ FailTurn(a), InScope', game' = game
  PROVE  InScope /\ Value' >= Value
<1> DEFINE C == Cache[game]
           b == Remaining
<1>1. game \in Games /\ unused \in SUBSET Identities /\ passes \in CountsWithin(game) /\ failures \in Nat
  BY DEF PlayTyped
<1>2. game.allowance \in Nat /\ b \in 0..game.allowance /\ (InScope => b = game.allowance - failures)
      /\ Value \in 0..Cardinality(Jobs)
  BY <1>1, GameFacts, PositionFacts
<1>3. \A r \in SUBSET Identities : Valued(C, game, r)
  BY <1>1, CacheSolves
<1>4. a[2] \in unused /\ unused \ {a[2]} \in SUBSET Identities
  BY <1>1, OptionFacts
<1>5. WorstFits(Worst(C, unused, passes, b, a[1], a[2]), C, unused, passes, b, a)
  <2>1. Valued(C, game, unused \ {a[2]})
    BY <1>3, <1>4
  <2> QED  BY <1>1, <1>2, <2>1, WorstIs
<1>6. Worst(C, unused, passes, b, a[1], a[2]) >= Value
  BY DEF Keeps
<1>7. Value' = C[<<unused', passes', Remaining'>>].value
  BY Zenon DEF Value, Position
<1>8. CASE PassTurn(a)
  <2>1. unused' = unused \ {a[2]} /\ passes' = WithPass(passes, a[1]) /\ failures' = failures
    BY <1>8 DEF PassTurn
  <2>2. InScope /\ Remaining' = b
    BY <2>1 DEF InScope, Remaining
  <2>3. Value' = C[<<unused \ {a[2]}, WithPass(passes, a[1]), b>>].value
    BY <1>7, <2>1, <2>2
  <2>4. WithPass(passes, a[1]) \in CountsWithin(game)
    BY <1>1, OptionFacts
  <2>5. Value' \in 0..Cardinality(Jobs)
    BY <1>2, <1>3, <1>4, <2>3, <2>4 DEF Valued
  <2>6. Worst(C, unused, passes, b, a[1], a[2]) <= Value' /\ Worst(C, unused, passes, b, a[1], a[2]) \in 0..Cardinality(Jobs)
    BY <1>5, <2>3 DEF WorstFits
  <2> HIDE DEF b, C
  <2> QED  BY <1>2, <1>6, <2>2, <2>5, <2>6, JobsCounted DEF b, C
<1>9. CASE FailTurn(a)
  <2>1. unused' = unused \ {a[2]} /\ passes' = passes /\ failures' = failures + 1
    BY <1>9 DEF FailTurn
  <2>2. InScope /\ b # 0 /\ Remaining' = b - 1 /\ b - 1 \in 0..game.allowance
    BY <1>1, <1>2, <2>1 DEF InScope, Remaining
  <2>3. Value' = C[<<unused \ {a[2]}, passes, b - 1>>].value
    BY <1>7, <2>1, <2>2
  <2>5. Value' \in 0..Cardinality(Jobs)
    BY <1>1, <1>3, <1>4, <2>2, <2>3 DEF Valued
  <2>6. Worst(C, unused, passes, b, a[1], a[2]) <= Value' /\ Worst(C, unused, passes, b, a[1], a[2]) \in 0..Cardinality(Jobs)
    BY <1>5, <2>2, <2>3 DEF WorstFits
  <2> HIDE DEF b, C
  <2> QED  BY <1>2, <1>6, <2>2, <2>5, <2>6, JobsCounted DEF b, C
<1> QED  BY <1>8, <1>9

\* A turn: of a planner by the solver's action, of another by any.
LEMMA TurnKeeps == ASSUME ExactAssumption, PlayInv, PlayTurn PROVE PlayInv'
<1>1. PlayTyped /\ PlayTyped'
  BY TurnTyped DEF PlayInv
<1>2. controller' = controller /\ cap' = cap /\ at' = at /\ at = "play" /\ rootValue' = rootValue /\ game' = game
      /\ pledged' = IF controller \in Planning THEN Value ELSE Unknown
  BY DEF PlayTurn, Playing, PlayRound
<1>3. AttemptsPaid'
  <2> SUFFICES ASSUME controller \in Planning, NEW j \in Jobs
               PROVE  attempts'[j] + Cardinality(unused') <= Cardinality(Identities)
    BY <1>2 DEF AttemptsPaid
  <2>1. PICK a \in Options(game, unused, passes) :
          /\ PassTurn(a) \/ FailTurn(a)
          /\ attempts' = [attempts EXCEPT ![a[1]] = @ + 1]
    BY <1>1, PlannerTurn
  <2>2. unused' = unused \ {a[2]}
    BY <2>1 DEF PassTurn, FailTurn
  <2>3. Cardinality(unused') = Cardinality(unused) - 1 /\ Cardinality(unused) \in Nat /\ Cardinality(unused) > 0
    BY <1>1, <2>2, OptionFacts DEF PlayTyped
  <2>4. attempts[j] + Cardinality(unused) <= Cardinality(Identities) /\ attempts \in [Jobs -> Nat]
        /\ Cardinality(Identities) \in Nat
    BY <1>1, IdentitiesAssumption, FS_CardinalityType DEF PlayInv, AttemptsPaid, PlayTyped
  <2>5. attempts'[j] \in Nat /\ attempts'[j] <= attempts[j] + 1
    BY <2>1, <2>4
  <2> QED  BY <2>3, <2>4, <2>5
<1>4. PromiseHeld'
  <2> SUFFICES ASSUME controller \in Planning, InScope', cap >= Cardinality(Identities)
               PROVE  Value' >= pledged' /\ Value' >= rootValue'
    BY <1>2 DEF PromiseHeld
  <2>1. PICK a \in Options(game, unused, passes) : Keeps(a) /\ (PassTurn(a) \/ FailTurn(a))
    BY <1>1, PlannerTurn
  <2>2. InScope /\ Value' >= Value
    BY <1>1, <1>2, <2>1, ValueKept
  <2>3. Value >= rootValue
    BY <2>2 DEF PlayInv, PromiseHeld
  <2>4. Value \in 0..Cardinality(Jobs) /\ Value' \in Int /\ rootValue \in Int
    <3>1. Value \in 0..Cardinality(Jobs)
      BY <1>1, PositionFacts
    <3>2. (Value \in 0..Cardinality(Jobs))'
      BY <1>1, PositionFacts, PTL
    <3> QED  BY <1>1, <3>1, <3>2, JobsCounted DEF PlayTyped, Unknown
  <2> QED  BY <1>2, <2>2, <2>3, <2>4, JobsCounted
<1>5. CertifiedFirst'
  BY <1>2 DEF PlayInv, CertifiedFirst
<1> QED  BY <1>1, <1>3, <1>4, <1>5 DEF PlayInv

\* Where nobody can be assigned, what is complete is the value.
LEMMA EndKeeps == ASSUME ExactAssumption, PlayInv, EndPlay PROVE PlayInv'
<1>1. /\ at = "play" /\ at' = "done"
      /\ Unresolved = {} \/ \E selection \in Selections : Affordable(selection) = {}
      /\ game' = game /\ unused' = unused /\ passes' = passes /\ failures' = failures /\ attempts' = attempts
      /\ rounds' = rounds /\ controller' = controller /\ cap' = cap /\ fallen' = fallen /\ pledged' = pledged
      /\ rootValue' = rootValue
  BY DEF EndPlay, publicState, others
<1>2. PlayTyped /\ PlayTyped'
  BY <1>1 DEF PlayInv, PlayTyped
<1>3. AttemptsPaid'
  BY <1>1 DEF PlayInv, AttemptsPaid
<1>4. Value' = Value /\ InScope' = InScope /\ Completed' = Completed
  BY <1>1 DEF Value, Position, Remaining, InScope, Completed
<1>5. PromiseHeld'
  <2> SUFFICES ASSUME controller \in Planning, InScope, cap >= Cardinality(Identities)
               PROVE  Value >= pledged /\ Value >= rootValue /\ Cardinality(Completed) >= rootValue
    BY <1>1, <1>4 DEF PromiseHeld
  <2>1. Value >= pledged /\ Value >= rootValue
    BY DEF PlayInv, PromiseHeld
  <2>2. Value \in 0..Cardinality(Jobs) /\ rootValue \in Int
    BY <1>2, PositionFacts DEF PlayTyped, Unknown
  <2>3. CASE Unresolved = {}
    <3>1. Completed = Jobs
      <4>1. /\ game \in Games /\ passes \in [Jobs -> Nat] /\ game.need \in [Jobs -> Nat \ {0}]
        BY <1>2, CountFacts, GameFacts DEF PlayTyped
      <4> QED  BY <2>3, <4>1 DEF Unresolved, Completed
    <3> QED  BY <2>1, <2>2, <3>1, JobsCounted
  <2>4. ASSUME NEW selection \in Selections, Affordable(selection) = {}
        PROVE  Cardinality(Completed) >= rootValue
    <3>1. \A a \in Options(game, unused, passes) : Affordable({a}) # {}
      <4>1. \A a \in Options(game, unused, passes) : attempts[a[1]] < cap
        BY <1>2, PlannerCanPay DEF PlayInv, ExactAssumption
      <4> QED  BY <4>1 DEF Affordable
    <3>2. Options(game, unused, passes) = {}
      BY <1>2, <2>4, <3>1, PlannerSelects
    <3>3. Value = Cardinality(Completed)
      BY <1>2, <3>2, PositionFacts
    <3> QED  BY <2>1, <3>3
  <2> QED  BY <1>1, <2>1, <2>3, <2>4
<1>6. CertifiedFirst'
  BY <1>1 DEF PlayInv, CertifiedFirst
<1> QED  BY <1>2, <1>3, <1>5, <1>6 DEF PlayInv

\* Where nothing changes.
LEMMA RestKeeps == ASSUME PlayInv, UNCHANGED exactVars PROVE PlayInv'
<1>1. /\ game' = game /\ unused' = unused /\ passes' = passes /\ failures' = failures /\ attempts' = attempts
      /\ rounds' = rounds /\ controller' = controller /\ cap' = cap /\ at' = at /\ fallen' = fallen
      /\ rootValue' = rootValue /\ pledged' = pledged
  BY DEF exactVars, publicState
<1> QED  BY <1>1 DEF PlayInv, PlayTyped, AttemptsPaid, PromiseHeld, CertifiedFirst,
                     Value, Position, Remaining, InScope, Completed

LEMMA PlanStep == ASSUME ExactAssumption, PlayInv, [ExactNext]_exactVars PROVE PlayInv'
<1>1. CASE Certify
  BY <1>1, CertifyKeeps
<1>2. CASE PlayTurn
  BY <1>2, TurnKeeps
<1>3. CASE EndPlay
  BY <1>3, EndKeeps
<1>4. CASE Ended
  BY <1>4, RestKeeps DEF Ended
<1>5. CASE UNCHANGED exactVars
  BY <1>5, RestKeeps
<1> QED  BY <1>1, <1>2, <1>3, <1>4, <1>5 DEF ExactNext

\* Whatever the controller, the games, the caps and the failures: the
\* inductive invariant of the turns of execute_recovery.
THEOREM PlayInvAlways == ASSUME ExactAssumption PROVE ExactSpec => []PlayInv
<1>1. ExactInit => PlayInv
  BY PlanInit
<1>2. PlayInv /\ [ExactNext]_exactVars => PlayInv'
  BY PlanStep
<1> QED  BY <1>1, <1>2, PTL DEF ExactSpec

\* The state of a game is that of a recovery being played.
THEOREM PlayTypesAlways == ASSUME ExactAssumption PROVE ExactSpec => []ExactTypeOK
<1>1. PlayInv => ExactTypeOK
  BY CountFacts DEF PlayInv, PlayTyped, ExactTypeOK, PublicTypeOK
<1> QED  BY <1>1, PlayInvAlways, PTL

\* A planner that assigns by the solver, or lets the matching choose under its
\* shield, never lets the guaranteed count of jobs fall, and completes as many
\* as its certificate counted, while no more identities fail than allowed.
THEOREM PromisesAlways == ASSUME ExactAssumption PROVE ExactSpec => []PromiseHeld
<1>1. PlayInv => PromiseHeld
  BY DEF PlayInv
<1> QED  BY <1>1, PlayInvAlways, PTL

\* Who plays by execution_certificate completes every job, and has the budget
\* for it: it defers where the certificate does not pass.
THEOREM CertificatesAlways == ASSUME ExactAssumption PROVE ExactSpec => []CertificateKept
<1>1. PlayInv => CertificateKept
  <2> SUFFICES ASSUME PlayInv, controller = CertifiedPlanner, at = "done", InScope
               PROVE  Unresolved = {}
    BY DEF CertificateKept
  <2>1. rootValue = Cardinality(Jobs) /\ cap >= Cardinality(Identities)
    BY DEF PlayInv, CertifiedFirst
  <2>2. Cardinality(Completed) >= Cardinality(Jobs)
    BY <2>1 DEF PlayInv, PromiseHeld, Planning
  <2>3. Completed = Jobs
    <3>1. Completed \subseteq Jobs
      BY DEF Completed
    <3>2. Cardinality(Completed) <= Cardinality(Jobs) /\ (Cardinality(Completed) = Cardinality(Jobs) => Completed = Jobs)
      BY <3>1, JobsAssumption, FS_Subset
    <3> QED  BY <2>2, <3>1, <3>2, JobsCounted
  <2>4. game \in Games /\ passes \in [Jobs -> Nat] /\ game.need \in [Jobs -> Nat \ {0}]
    BY CountFacts, GameFacts DEF PlayInv, PlayTyped
  <2> QED  BY <2>3, <2>4 DEF Completed, Unresolved
<1> QED  BY <1>1, PlayInvAlways, PTL

-------------------------------------------------------------------------------
(* The auditor                                                             *)

\* Whoever is assigned passes, and may have been spared by those who fail,
\* or fails, and was one of them.
SplitBy(r, b, i) ==
  /\ Spared(Hypotheses(r, b), i) = Hypotheses(r \ {i}, b)
  /\ b = 0 => Blamed(Hypotheses(r, b), i) = {}
  /\ b # 0 => Blamed(Hypotheses(r, b), i) = Hypotheses(r \ {i}, b - 1)
LEMMA HypothesesSplit ==
  ASSUME NEW r \in SUBSET Identities, NEW b \in Nat, NEW i \in r
  PROVE  SplitBy(r, b, i)
<1>1. \A h \in SUBSET r : IsFiniteSet(h) /\ Cardinality(h) \in Nat
  <2> SUFFICES ASSUME NEW h \in SUBSET r PROVE IsFiniteSet(h) /\ Cardinality(h) \in Nat
    OBVIOUS
  <2>1. h \in SUBSET Identities
    OBVIOUS
  <2> QED  BY <2>1, IdentitiesAssumption, FS_Subset, FS_CardinalityType
<1>2. \A h \in SUBSET r : i \in h => Cardinality(h \ {i}) = Cardinality(h) - 1
  BY <1>1, FS_RemoveElement
<1>3. Spared(Hypotheses(r, b), i) = Hypotheses(r \ {i}, b)
  BY DEF Spared, Hypotheses
<1>4. ASSUME NEW h \in Hypotheses(r, b), i \in h
      PROVE  b # 0 /\ h \ {i} \in Hypotheses(r \ {i}, b - 1)
  <2>1. h \in SUBSET r /\ Cardinality(h) <= b /\ h \ {i} \in SUBSET (r \ {i}) /\ h \ {i} \in SUBSET r
    BY DEF Hypotheses
  <2>2. Cardinality(h \ {i}) = Cardinality(h) - 1 /\ Cardinality(h) \in Nat /\ Cardinality(h \ {i}) \in Nat
    BY <1>1, <1>2, <1>4, <2>1
  <2> QED  BY <2>1, <2>2 DEF Hypotheses
<1>5. ASSUME b = 0 PROVE Blamed(Hypotheses(r, b), i) = {}
  BY <1>4, <1>5 DEF Blamed
<1>6. ASSUME b # 0 PROVE Blamed(Hypotheses(r, b), i) = Hypotheses(r \ {i}, b - 1)
  <2>1. \A x \in Blamed(Hypotheses(r, b), i) : x \in Hypotheses(r \ {i}, b - 1)
    BY <1>4 DEF Blamed
  <2>2. ASSUME NEW x \in Hypotheses(r \ {i}, b - 1) PROVE x \in Blamed(Hypotheses(r, b), i)
    <3>1. x \in SUBSET (r \ {i}) /\ Cardinality(x) <= b - 1 /\ x \cup {i} \in SUBSET r /\ x \in SUBSET r
      BY DEF Hypotheses
    <3>2. Cardinality(x \cup {i}) = Cardinality(x) + 1 /\ Cardinality(x) \in Nat
      BY <1>1, <3>1, FS_AddElement
    <3>3. x \cup {i} \in Hypotheses(r, b) /\ i \in x \cup {i} /\ (x \cup {i}) \ {i} = x
      BY <3>1, <3>2 DEF Hypotheses
    <3> QED  BY <3>3 DEF Blamed
  <2> QED  BY <2>1, <2>2
<1> QED  BY <1>3, <1>5, <1>6 DEF SplitBy

\* Nobody fails, under no hypothesis but that.
LEMMA NobodyFails ==
  ASSUME NEW r \in SUBSET Identities
  PROVE  Hypotheses(r, 0) = {{}} /\ \A b \in Nat : Hypotheses(r, b) # {}
<1>1. \A h \in SUBSET r : Cardinality(h) \in Nat /\ (Cardinality(h) = 0 => h = {})
  <2> SUFFICES ASSUME NEW h \in SUBSET r PROVE Cardinality(h) \in Nat /\ (Cardinality(h) = 0 => h = {})
    OBVIOUS
  <2>1. h \in SUBSET Identities
    OBVIOUS
  <2>2. IsFiniteSet(h)
    BY <2>1, IdentitiesAssumption, FS_Subset
  <2> QED  BY <2>2, FS_CardinalityType, FS_EmptySet
<1>2. Cardinality({}) = 0
  BY FS_EmptySet
<1>3. Hypotheses(r, 0) = {{}}
  BY <1>1, <1>2 DEF Hypotheses
<1>4. \A b \in Nat : {} \in Hypotheses(r, b)
  BY <1>2 DEF Hypotheses
<1> QED  BY <1>3, <1>4

\* The auditor's cache agrees with the solver's where r remain.
AuditsAs(A, C, g, r) ==
  \A c \in CountsWithin(g) : \A b \in 0..g.allowance : A[<<r, c, Hypotheses(r, b)>>] = C[<<r, c, b>>]

\* Where the positions with an identity less agree, so do the options.
LEMMA OptionsAudited ==
  ASSUME NEW g \in Games, NEW C, NEW below, NEW r \in SUBSET Identities,
         NEW c \in CountsWithin(g), NEW b \in 0..g.allowance, NEW a \in Options(g, r, c),
         Valued(C, g, r \ {a[2]}), AuditsAs(below, C, g, r \ {a[2]})
  PROVE  /\ AuditedWorst(below, r, c, Hypotheses(r, b), a[1], a[2]) = Worst(C, r, c, b, a[1], a[2])
         /\ AuditedOptimistic(below, r, c, a[1], a[2]) = Optimistic(C, r, c, a[1], a[2])
<1> DEFINE s == r \ {a[2]}
           d == WithPass(c, a[1])
           x == C[<<s, d, b>>].value
           y == C[<<s, c, b - 1>>].value
<1>1. s \in SUBSET Identities /\ d \in CountsWithin(g) /\ a[2] \in r
  BY OptionFacts
<1>2. b \in Nat /\ 0 \in 0..g.allowance /\ (b # 0 => b - 1 \in 0..g.allowance /\ b - 1 \in Nat)
  BY GameFacts
<1>3. x \in Int /\ (b # 0 => y \in Int)
  <2>1. x \in 0..Cardinality(Jobs)
    BY Children
  <2>2. b # 0 => y \in 0..Cardinality(Jobs)
    BY Children
  <2> HIDE DEF x, y
  <2> QED  BY <2>1, <2>2, JobsCounted
<1>4. below[<<s, d, Hypotheses(s, b)>>].value = x
  BY <1>1 DEF AuditsAs
<1>5. b # 0 => below[<<s, c, Hypotheses(s, b - 1)>>].value = y
  BY <1>2 DEF AuditsAs
<1>6. AuditedOptimistic(below, r, c, a[1], a[2]) = Optimistic(C, r, c, a[1], a[2])
  <2>1. below[<<s, d, Hypotheses(s, 0)>>] = C[<<s, d, 0>>]
    BY <1>1, <1>2 DEF AuditsAs
  <2>2. Hypotheses(s, 0) = {{}}
    BY <1>1, NobodyFails
  <2>3. below[<<s, d, {{}}>>] = C[<<s, d, 0>>]
    BY <2>1, <2>2
  <2> QED  BY <2>3 DEF AuditedOptimistic, Optimistic
<1> DEFINE H == Hypotheses(r, b)
           passing == {below[<<s, d, h>>].value : h \in {Spared(H, a[2])} \ {{}}}
           failing == {below[<<s, c, h>>].value : h \in {Blamed(H, a[2])} \ {{}}}
<1>7. AuditedWorst(below, r, c, H, a[1], a[2]) = Least(passing \cup failing)
  BY Zenon DEF AuditedWorst
<1>12. /\ Spared(H, a[2]) = Hypotheses(s, b)
       /\ b = 0 => Blamed(H, a[2]) = {}
       /\ b # 0 => Blamed(H, a[2]) = Hypotheses(s, b - 1)
  <2>1. SplitBy(r, b, a[2])
    BY <1>1, <1>2, HypothesesSplit
  <2> QED  BY <2>1, Zenon DEF SplitBy
<1>8. passing = {x}
  <2>1. Spared(H, a[2]) = Hypotheses(s, b) /\ Hypotheses(s, b) # {}
    <3>1. Spared(H, a[2]) = Hypotheses(s, b)
      BY <1>12
    <3>2. Hypotheses(s, b) # {}
      <4> HIDE DEF s, d, x, y
      <4> QED  BY <1>1, <1>2, NobodyFails
    <3> QED  BY <3>1, <3>2
  <2>2. {Spared(H, a[2])} \ {{}} = {Hypotheses(s, b)}
    BY <2>1
  <2> HIDE DEF H, s, d, x
  <2>3. \A v : v \in passing <=> v = below[<<s, d, Hypotheses(s, b)>>].value
    BY <2>2
  <2> QED  BY <1>4, <2>3
<1>9. Worst(C, r, c, b, a[1], a[2]) = IF b = 0 THEN x ELSE Least({x, y})
  BY DEF Worst
<1>10. CASE b = 0
  <2>1. failing = {}
    <3>1. Blamed(H, a[2]) = {}
      BY <1>10, <1>12
    <3> HIDE DEF H
    <3> QED  BY <3>1
  <2>2. passing \cup failing = {x}
    BY <1>8, <2>1
  <2> HIDE DEF passing, failing, x
  <2>3. Least({x}) = x
    BY <1>3 DEF Least
  <2> QED  BY <1>6, <1>7, <1>9, <1>10, <2>2, <2>3
<1>11. CASE b # 0
  <2>1. failing = {y}
    <3>1. Blamed(H, a[2]) = Hypotheses(s, b - 1) /\ Hypotheses(s, b - 1) # {}
      <4>1. Blamed(H, a[2]) = Hypotheses(s, b - 1)
        BY <1>11, <1>12
      <4>2. Hypotheses(s, b - 1) # {}
        <5> HIDE DEF s, d, x, y
        <5> QED  BY <1>1, <1>2, <1>11, NobodyFails
      <4> QED  BY <4>1, <4>2
    <3>2. {Blamed(H, a[2])} \ {{}} = {Hypotheses(s, b - 1)}
      BY <3>1
    <3> HIDE DEF H, s, y
    <3>3. \A v : v \in failing <=> v = below[<<s, c, Hypotheses(s, b - 1)>>].value
      BY <3>2
    <3> QED  BY <1>5, <1>11, <3>3
  <2>2. passing \cup failing = {x, y}
    BY <1>8, <2>1
  <2> HIDE DEF passing, failing, x, y
  <2> QED  BY <1>6, <1>7, <1>9, <1>11, <2>2
<1> QED  BY <1>10, <1>11

\* It agrees everywhere: induction over who remains.
LEMMA AuditorSolves ==
  ASSUME NEW g \in Games
  PROVE  \A r \in SUBSET Identities : AuditsAs(Audited(g), Solved(g), g, r)
<1> DEFINE C == Solved(g)
           A == Audited(g)
           Good == {r \in SUBSET Identities : AuditsAs(A, C, g, r)}
<1>1. Solves(C, g) /\ \A r \in SUBSET Identities : Valued(C, g, r)
  BY SolverSolves, AllValued
<1>2. LayeredCache(A, TRUE, g)
  BY SolvedCache
<1>3. /\ \A k : PositionsOf(TRUE, g, k) = AuditedPositions(g, k)
      /\ \A below, p : SolutionAt(TRUE, g, below, p) = AuditedSolution(g, below, p[1], p[2], p[3])
  BY DEF PositionsOf, SolutionAt
<1> HIDE DEF A, C
<1>4. ASSUME NEW r \in SUBSET Identities, \A i \in r : AuditsAs(A, C, g, r \ {i})
      PROVE  AuditsAs(A, C, g, r)
  <2> SUFFICES ASSUME NEW c \in CountsWithin(g), NEW b \in 0..g.allowance
               PROVE  A[<<r, c, Hypotheses(r, b)>>] = C[<<r, c, b>>]
    BY DEF AuditsAs
  <2> DEFINE H == Hypotheses(r, b)
             k == Cardinality(r)
             O == Options(g, r, c)
  <2>1. k \in 0..AllOf
    <3>1. IsFiniteSet(r) /\ Cardinality(r) <= Cardinality(Identities)
      BY IdentitiesAssumption, FS_Subset
    <3>2. Cardinality(r) \in Nat /\ Cardinality(Identities) \in Nat
      BY <3>1, IdentitiesAssumption, FS_CardinalityType
    <3> QED  BY <3>1, <3>2 DEF AllOf
  <2>2. \A s \in SUBSET Identities : \A d \in CountsWithin(g) : \A e \in 0..g.allowance :
          <<s, d, Hypotheses(s, e)>> \in AuditedPositions(g, Cardinality(s))
    <3> SUFFICES ASSUME NEW s \in SUBSET Identities, NEW d \in CountsWithin(g), NEW e \in 0..g.allowance
                 PROVE  <<s, d, Hypotheses(s, e)>> \in AuditedPositions(g, Cardinality(s))
      OBVIOUS
    <3>1. <<s, d, e>> \in Positions(g, Cardinality(s))
      BY PositionIs
    <3> QED  BY <3>1 DEF AuditedPositions
  <2>3. PICK below : /\ A[<<r, c, H>>] = AuditedSolution(g, below, r, c, H)
                     /\ k > 0 => \A q \in AuditedPositions(g, k - 1) : below[q] = A[q]
    <3>1. <<r, c, H>> \in PositionsOf(TRUE, g, k)
      BY <1>3, <2>2
    <3>2. PICK below : /\ A[<<r, c, H>>] = SolutionAt(TRUE, g, below, <<r, c, H>>)
                       /\ k > 0 => \A q \in PositionsOf(TRUE, g, k - 1) : below[q] = A[q]
      BY <1>2, <2>1, <3>1 DEF LayeredCache
    <3>3. SolutionAt(TRUE, g, below, <<r, c, H>>) = AuditedSolution(g, below, r, c, H)
      BY DEF SolutionAt
    <3> QED  BY <1>3, <3>2, <3>3
  <2>4. ASSUME NEW a \in O
        PROVE  /\ AuditedWorst(below, r, c, H, a[1], a[2]) = Worst(C, r, c, b, a[1], a[2])
               /\ AuditedOptimistic(below, r, c, a[1], a[2]) = Optimistic(C, r, c, a[1], a[2])
    <3>1. a[2] \in r /\ r \ {a[2]} \in SUBSET Identities /\ k > 0 /\ Cardinality(r \ {a[2]}) = k - 1
      BY OptionFacts
    <3>2. AuditsAs(below, C, g, r \ {a[2]})
      BY <1>4, <2>2, <2>3, <3>1 DEF AuditsAs
    <3> QED  BY <1>1, <3>1, <3>2, OptionsAudited
  <2>5. C[<<r, c, b>>] = Solution(g, C, r, c, b)
    BY <1>1 DEF Solves
  <2>6. AuditedSolution(g, below, r, c, H) = Solution(g, C, r, c, b)
    <3> DEFINE W == [a \in O |-> Worst(C, r, c, b, a[1], a[2])]
               V == [a \in O |-> AuditedWorst(below, r, c, H, a[1], a[2])]
               R == [a \in DOMAIN W |-> RankOf(g, W[a], Optimistic(C, r, c, a[1], a[2]), a[1], a[2])]
               Q == [a \in DOMAIN V |-> RankOf(g, V[a], AuditedOptimistic(below, r, c, a[1], a[2]), a[1], a[2])]
    <3>1. V = W
      BY <2>4
    <3>2. Q = R
      BY <2>4
    <3>3. /\ O # {} => AuditedSolution(g, below, r, c, H) = AuditedRank(g, below, r, c, V)
          /\ O # {} => Solution(g, C, r, c, b) = BestRanked(g, C, r, c, W)
          /\ O = {} => AuditedSolution(g, below, r, c, H) = Solution(g, C, r, c, b)
      BY Zenon DEF Solution, AuditedSolution
    <3>4. AuditedRank(g, below, r, c, V) = BestOption(Q, V) /\ BestRanked(g, C, r, c, W) = BestOption(R, W)
      BY Zenon DEF AuditedRank, BestRanked
    <3> HIDE DEF O, V, W, Q, R
    <3> QED  BY <3>1, <3>2, <3>3, <3>4
  <2> QED  BY <2>3, <2>5, <2>6
<1>5. {} \in Good
  BY <1>4
<1>6. ASSUME NEW r \in SUBSET Identities, r # {}, \A i \in r : r \ {i} \in Good PROVE r \in Good
  BY <1>4, <1>6
<1>7. SUBSET Identities \subseteq Good
  <2> HIDE DEF Good
  <2> QED  BY <1>5, <1>6, IdentitiesAssumption, AllSubsets
<1> QED  BY <1>7 DEF A, C

\* The audit of recovery_enumeration.py, which plays against the sets of
\* identities that may fail, finds at every position of the solver's cache the
\* same value and the same action.
THEOREM AuditAlways == ASSUME ExactAssumption PROVE ExactSpec => []AuditAgrees
<1>1. PlayInv => AuditAgrees
  <2> SUFFICES ASSUME PlayInv, NEW p \in DOMAIN Cache[game]
               PROVE  Audited(game)[<<p[1], p[2], Hypotheses(p[1], p[3])>>] = Cache[game][p]
    BY DEF AuditAgrees
  <2>1. game \in Games
    BY DEF PlayInv, PlayTyped
  <2>2. Cache[game] = Solved(game)
    BY <2>1 DEF ExactAssumption, Filled
  <2>3. Solves(Solved(game), game)
    BY <2>1, SolverSolves
  <2>4. PICK r \in SUBSET Identities, c \in CountsWithin(game), b \in 0..game.allowance : p = <<r, c, b>>
    BY <2>2, <2>3 DEF Solves
  <2>5. AuditsAs(Audited(game), Solved(game), game, r)
    BY <2>1, AuditorSolves
  <2>6. Audited(game)[<<r, c, Hypotheses(r, b)>>] = Solved(game)[<<r, c, b>>]
    BY <2>5 DEF AuditsAs
  <2> QED  BY <2>2, <2>4, <2>6
<1> QED  BY <1>1, PlayInvAlways, PTL

-------------------------------------------------------------------------------
(* What a reserve cover is worth                                           *)

LEMMA MoreTimes ==
  ASSUME NEW x \in Int, NEW y \in Int, NEW k \in Nat, x >= y + 1
  PROVE  x * k \in Int /\ y * k \in Int /\ x * k >= y * k + k
<1> DEFINE d == x - y - 1
<1>1. d \in Nat /\ x = y + 1 + d
  OBVIOUS
<1>2. d * k \in Nat
  <2>1. \A m, n \in Nat : m * n \in Nat
    OBVIOUS
  <2> QED  BY <1>1, <2>1
<1>3. (y + 1 + d) * k = y * k + k + d * k
  OBVIOUS
<1>4. x * k \in Int /\ y * k \in Int
  OBVIOUS
<1> HIDE DEF d
<1> QED  BY <1>1, <1>2, <1>3, <1>4

\* The sort key puts a better worst case first.
LEMMA WorstFirst ==
  ASSUME ExactAssumption, NEW g \in Games, NEW r \in SUBSET Identities, NEW c \in CountsWithin(g),
         NEW a \in Options(g, r, c), NEW o \in Options(g, r, c),
         NEW worst \in 0..Cardinality(Jobs), NEW better \in 0..Cardinality(Jobs), worst < better,
         NEW x \in 0..Cardinality(Jobs), NEW y \in 0..Cardinality(Jobs)
  PROVE  ~(RankOf(g, worst, x, a[1], a[2]) <= RankOf(g, better, y, o[1], o[2]))
<1>1. a[1] \in Jobs /\ a[2] \in Identities /\ o[1] \in Jobs /\ o[2] \in Identities
  BY OptionFacts
<1>2. Identities # {} /\ Identities \subseteq Int /\ IsFiniteSet(Identities)
  BY <1>1, IdentitiesAssumption
<1>3. Greatest(Identities) \in Identities /\ \A i \in Identities : i <= Greatest(Identities)
  BY <1>2, GreatestIs
<1> DEFINE J == Cardinality(Jobs)
           W == Weight
           last == 1 + Greatest(Identities)
           ca == Cardinality(g.compat[a[2]])
           co == Cardinality(g.compat[o[2]])
           ta == (W - worst) * W - x
           to == (W - better) * W - y
           ma == ta * W + ca
           mo == to * W + co
<1>4. J \in Nat /\ W = J + 1 /\ W \in Nat
  BY JobsCounted DEF Weight
<1>5. ca \in 0..J /\ co \in 0..J
  <2>1. g.compat[a[2]] \in SUBSET Jobs /\ g.compat[o[2]] \in SUBSET Jobs
    BY <1>1, GameFacts
  <2> QED  BY <2>1, JobsCounted
<1>6. last \in Nat /\ last >= 1 /\ a[2] \in 0..(last - 1) /\ o[2] \in 0..(last - 1)
  <2> DEFINE top == Greatest(Identities)
  <2>1. top \in Nat /\ a[2] \in Nat /\ o[2] \in Nat
    BY <1>1, <1>3, IdentitiesAssumption
  <2>2. a[2] <= top /\ o[2] <= top
    BY <1>1, <1>3
  <2> HIDE DEF top
  <2>3. 1 + top \in Nat /\ 1 + top >= 1 /\ a[2] \in 0..((1 + top) - 1) /\ o[2] \in 0..((1 + top) - 1)
    BY <2>1, <2>2
  <2> QED  BY <2>3 DEF top
<1>7. a[1] \in 0..(J - 1) /\ o[1] \in 0..(J - 1)
  BY <1>1 DEF ExactAssumption
<1>8. /\ RankOf(g, worst, x, a[1], a[2]) = ma * W * last + a[1] * last + a[2]
      /\ RankOf(g, better, y, o[1], o[2]) = mo * W * last + o[1] * last + o[2]
  BY Zenon DEF RankOf
<1>9. x \in 0..J /\ y \in 0..J /\ worst \in 0..J /\ better \in 0..J
  OBVIOUS
<1> HIDE DEF J, W, last, ca, co
<1>10. ta \in Int /\ to \in Int /\ ta >= to + 1
  <2> DEFINE p == (W - worst) * W
             q == (W - better) * W
  <2>1. W - worst \in Int /\ W - better \in Int /\ W - worst >= (W - better) + 1
    BY <1>4, <1>9
  <2>2. p \in Int /\ q \in Int /\ p >= q + W
    BY <1>4, <2>1, MoreTimes
  <2> HIDE DEF p, q
  <2>3. p - x \in Int /\ q - y \in Int /\ p - x >= (q - y) + 1
    BY <1>4, <1>9, <2>2
  <2> QED  BY <2>3 DEF p, q
<1> HIDE DEF ta, to
<1>11. ma \in Int /\ mo \in Int /\ ma >= mo + 1
  <2> DEFINE p == ta * W
             q == to * W
  <2>1. p \in Int /\ q \in Int /\ p >= q + W
    BY <1>4, <1>10, MoreTimes
  <2> HIDE DEF p, q
  <2>2. p + ca \in Int /\ q + co \in Int /\ p + ca >= (q + co) + 1
    BY <1>4, <1>5, <2>1
  <2> QED  BY <2>2 DEF p, q
<1> HIDE DEF ma, mo
<1> DEFINE na == ma * W
           no == mo * W
           ha == na * last
           ho == no * last
           ja == a[1] * last
           jo == o[1] * last
           wl == W * last
           jl == (J - 1) * last
<1>12. na \in Int /\ no \in Int /\ na >= no + W
  BY <1>4, <1>11, MoreTimes
<1>13. ha \in Int /\ ho \in Int /\ ha >= ho + wl /\ wl \in Int
  <2>1. na - no - W \in Nat /\ na = no + W + (na - no - W)
    BY <1>4, <1>12
  <2> DEFINE d == na - no - W
  <2>2. d \in Nat /\ na = no + W + d
    BY <2>1
  <2> HIDE DEF d, na, no
  <2>3. (no + W + d) * last = no * last + W * last + d * last
    BY <1>4, <1>6, <1>12, <2>2
  <2>4. d * last \in Nat
    <3>1. \A m, n \in Nat : m * n \in Nat
      OBVIOUS
    <3> QED  BY <1>6, <2>2, <3>1
  <2>5. no * last \in Int /\ W * last \in Int /\ na * last \in Int
    <3>1. \A m, n \in Int : m * n \in Int
      OBVIOUS
    <3> QED  BY <1>4, <1>6, <1>12, <3>1
  <2>6. na * last = no * last + W * last + d * last
    BY <2>2, <2>3
  <2> DEFINE u == na * last
             v == no * last
             w == W * last
             z == d * last
  <2>7. u = v + w + z /\ u \in Int /\ v \in Int /\ w \in Int /\ z \in Nat
    BY <2>4, <2>5, <2>6
  <2> HIDE DEF u, v, w, z
  <2>8. u \in Int /\ v \in Int /\ u >= v + w /\ w \in Int
    BY <2>7
  <2> QED  BY <2>8 DEF u, v, w
<1>14. ja \in Nat
  <2>1. \A m, n \in Nat : m * n \in Nat
    OBVIOUS
  <2> QED  BY <1>6, <1>7, <2>1
<1>15. jo \in Int /\ wl >= jo + last
  <2>1. W \in Int /\ o[1] \in Int /\ W >= o[1] + 1
    BY <1>4, <1>7
  <2> QED  BY <1>6, <2>1, MoreTimes
<1>16. ma * W * last = ha /\ mo * W * last = ho
  OBVIOUS
<1> HIDE DEF ha, ho, ja, jo, wl
<1>17. ~(ha + ja + a[2] <= ho + jo + o[2])
  BY <1>6, <1>13, <1>14, <1>15
<1> QED  BY <1>8, <1>16, <1>17 DEF ja, jo

\* No option is worth more than the value of the position.
LEMMA ValueIsBest ==
  ASSUME ExactAssumption, NEW g \in Games, NEW C, Solves(C, g), NEW r \in SUBSET Identities,
         NEW c \in CountsWithin(g), NEW b \in 0..g.allowance, NEW o \in Options(g, r, c)
  PROVE  Worst(C, r, c, b, o[1], o[2]) <= C[<<r, c, b>>].value
<1> DEFINE O == Options(g, r, c)
           worst(a) == Worst(C, r, c, b, a[1], a[2])
           optimistic(a) == Optimistic(C, r, c, a[1], a[2])
<1>1. \A s \in SUBSET Identities : Valued(C, g, s)
  BY AllValued
<1>2. \A i \in r : r \ {i} \in SUBSET Identities
  OBVIOUS
<1>3. PICK a \in O : /\ C[<<r, c, b>>] = [value |-> worst(a), moves |-> {a}]
                     /\ RanksOf(C, g, r, c, b, O)[a] <= RanksOf(C, g, r, c, b, O)[o]
  <2>1. LeadsAt(C, g, r, c, b)
    BY <1>1, <1>2, Leads
  <2> QED  BY <2>1 DEF LeadsAt
<1>4. ASSUME NEW e \in O PROVE worst(e) \in 0..Cardinality(Jobs) /\ optimistic(e) \in 0..Cardinality(Jobs)
  <2>1. e[2] \in r
    BY OptionFacts
  <2>2. Valued(C, g, r \ {e[2]})
    BY <1>1, <1>2, <2>1
  <2>3. worst(e) \in 0..Cardinality(Jobs)
    BY <2>2, WorstIs DEF WorstFits
  <2>4. optimistic(e) \in 0..Cardinality(Jobs)
    BY <2>2, Children DEF Optimistic
  <2> QED  BY <2>3, <2>4
<1>5. RankOf(g, worst(a), optimistic(a), a[1], a[2]) <= RankOf(g, worst(o), optimistic(o), o[1], o[2])
  BY <1>3 DEF RanksOf
<1>6. ~(worst(a) < worst(o))
  <2>1. worst(a) \in 0..Cardinality(Jobs) /\ worst(o) \in 0..Cardinality(Jobs)
        /\ optimistic(a) \in 0..Cardinality(Jobs) /\ optimistic(o) \in 0..Cardinality(Jobs)
    BY <1>4
  <2> HIDE DEF worst, optimistic
  <2> QED  BY <1>5, <2>1, WorstFirst
<1>7. worst(a) \in 0..Cardinality(Jobs) /\ worst(o) \in 0..Cardinality(Jobs)
  BY <1>4
<1>8. C[<<r, c, b>>].value = worst(a)
  BY <1>3
<1> HIDE DEF worst
<1>9. worst(o) <= C[<<r, c, b>>].value
  BY <1>6, <1>7, <1>8, JobsCounted
<1> QED  BY <1>9 DEF worst

\* Where the positions after an option are worth something, so is it.
LEMMA WorstAtLeast ==
  ASSUME NEW g \in Games, NEW C, NEW r \in SUBSET Identities,
         NEW c \in CountsWithin(g), NEW b \in 0..g.allowance, NEW a \in Options(g, r, c),
         Valued(C, g, r \ {a[2]}), NEW n \in Nat,
         C[<<r \ {a[2]}, WithPass(c, a[1]), b>>].value >= n,
         b # 0 => C[<<r \ {a[2]}, c, b - 1>>].value >= n
  PROVE  Worst(C, r, c, b, a[1], a[2]) >= n
<1>1. WorstFits(Worst(C, r, c, b, a[1], a[2]), C, r, c, b, a)
  BY WorstIs
<1> QED  BY <1>1 DEF WorstFits

Finished(g, c) == {j \in Jobs : c[j] >= g.need[j]}

LEMMA PassesFinish ==
  ASSUME NEW g \in Games, NEW r \in SUBSET Identities, NEW c \in CountsWithin(g), NEW a \in Options(g, r, c)
  PROVE  Finished(g, c) \subseteq Finished(g, WithPass(c, a[1]))
<1>1. a[1] \in Jobs
  BY OptionFacts
<1>2. c \in [Jobs -> Nat] /\ g.need \in [Jobs -> Nat \ {0}]
  BY CountFacts, GameFacts
<1> QED  BY <1>1, <1>2 DEF Finished, WithPass

\* What is complete stays complete.
WorthDone(C, g, r) ==
  \A c \in CountsWithin(g) : \A b \in 0..g.allowance : C[<<r, c, b>>].value >= Cardinality(Finished(g, c))

\* The value counts at least the complete jobs.
LEMMA DoneIsWorth ==
  ASSUME NEW g \in Games, NEW C, Solves(C, g)
  PROVE  \A r \in SUBSET Identities : WorthDone(C, g, r)
<1> DEFINE Good == {r \in SUBSET Identities : WorthDone(C, g, r)}
<1>1. ASSUME NEW r \in SUBSET Identities, \A i \in r : WorthDone(C, g, r \ {i})
      PROVE  WorthDone(C, g, r)
  <2> SUFFICES ASSUME NEW c \in CountsWithin(g), NEW b \in 0..g.allowance
               PROVE  C[<<r, c, b>>].value >= Cardinality(Finished(g, c))
    BY DEF WorthDone
  <2>0. Cardinality(Finished(g, c)) \in Nat /\ \A r2 \in SUBSET Identities : Valued(C, g, r2)
    BY JobsCounted, AllValued DEF Finished
  <2>1. CASE Options(g, r, c) = {}
    <3>1. C[<<r, c, b>>] = Solution(g, C, r, c, b)
      BY DEF Solves
    <3>2. Solution(g, C, r, c, b) = [value |-> Done(g, c), moves |-> {}]
      BY <2>1, Zenon DEF Solution
    <3>3. Done(g, c) = Cardinality(Finished(g, c))
      BY Zenon DEF Done, Finished
    <3> QED  BY <2>0, <3>1, <3>2, <3>3
  <2>2. CASE Options(g, r, c) # {}
    <3>1. LeadsAt(C, g, r, c, b)
      <4>1. \A i \in r : r \ {i} \in SUBSET Identities
        OBVIOUS
      <4> QED  BY <2>0, <2>2, <4>1, Leads
    <3>2. PICK a \in Options(g, r, c) : C[<<r, c, b>>] = [value |-> Worst(C, r, c, b, a[1], a[2]), moves |-> {a}]
      BY <3>1 DEF LeadsAt
    <3>3. /\ a[2] \in r /\ r \ {a[2]} \in SUBSET Identities /\ WithPass(c, a[1]) \in CountsWithin(g)
          /\ Finished(g, c) \subseteq Finished(g, WithPass(c, a[1]))
      BY OptionFacts, PassesFinish
    <3>4. WorthDone(C, g, r \ {a[2]})
      BY <1>1, <3>3
    <3>5. C[<<r \ {a[2]}, WithPass(c, a[1]), b>>].value >= Cardinality(Finished(g, WithPass(c, a[1])))
      BY <3>3, <3>4 DEF WorthDone
    <3>6. /\ Cardinality(Finished(g, WithPass(c, a[1]))) \in Nat
          /\ Cardinality(Finished(g, c)) <= Cardinality(Finished(g, WithPass(c, a[1])))
      <4>1. Finished(g, WithPass(c, a[1])) \in SUBSET Jobs
        BY DEF Finished
      <4>2. IsFiniteSet(Finished(g, WithPass(c, a[1])))
        BY <4>1, JobsCounted
      <4> QED  BY <3>3, <4>1, <4>2, JobsCounted, FS_Subset
    <3>7. b # 0 => C[<<r \ {a[2]}, c, b - 1>>].value >= Cardinality(Finished(g, c))
      <4>1. b # 0 => b - 1 \in 0..g.allowance
        BY GameFacts
      <4> QED  BY <3>4, <4>1 DEF WorthDone
    <3>8. C[<<r \ {a[2]}, WithPass(c, a[1]), b>>].value >= Cardinality(Finished(g, c))
      <4>1. C[<<r \ {a[2]}, WithPass(c, a[1]), b>>].value \in 0..Cardinality(Jobs)
        BY <2>0, <3>3 DEF Valued
      <4> QED  BY <2>0, <3>5, <3>6, <4>1, JobsCounted
    <3>9. Worst(C, r, c, b, a[1], a[2]) >= Cardinality(Finished(g, c))
      <4>1. Valued(C, g, r \ {a[2]})
        BY <2>0, <3>3
      <4> QED  BY <2>0, <3>7, <3>8, <4>1, WorstAtLeast
    <3> QED  BY <3>2, <3>9
  <2> QED  BY <2>1, <2>2
<1>2. {} \in Good
  BY <1>1
<1>3. ASSUME NEW r \in SUBSET Identities, r # {}, \A i \in r : r \ {i} \in Good PROVE r \in Good
  BY <1>1, <1>3
<1>4. SUBSET Identities \subseteq Good
  <2> HIDE DEF Good
  <2> QED  BY <1>2, <1>3, IdentitiesAssumption, AllSubsets
<1> QED  BY <1>4

\* A reserve cover at a position: each of its jobs has all it lacks, nobody
\* twice, and among the others as many as may fail.
Serving(g, j) == {i \in Identities : j \in g.compat[i]}
CoverAt(g, r, c, b, J, layout) ==
  /\ layout \in [J -> SUBSET r]
  /\ \A j \in J : layout[j] \subseteq Serving(g, j) /\ Cardinality(layout[j]) = g.need[j] - c[j]
  /\ \A j, h \in J : j # h => layout[j] \cap layout[h] = {}
  /\ \A j \in J : Cardinality((r \ AssignedTo(layout, J)) \cap Serving(g, j)) >= b

\* Where r remain, every cover is worth its jobs and those complete.
WorthCovers(C, g, r) ==
  \A c \in CountsWithin(g) : \A b \in 0..g.allowance : \A J \in SUBSET Jobs :
    (\E layout : CoverAt(g, r, c, b, J, layout)) =>
      C[<<r, c, b>>].value >= Cardinality(Finished(g, c) \cup J)

\* OneIf of the planned passes: the cover of what is left is without it.
LEMMA CoverAfterPass ==
  ASSUME NEW g \in Games, NEW r \in SUBSET Identities, NEW c \in CountsWithin(g), NEW b \in 0..g.allowance,
         NEW J \in SUBSET Jobs, NEW layout, CoverAt(g, r, c, b, J, layout), NEW j \in J, NEW i \in layout[j]
  PROVE  CoverAt(g, r \ {i}, WithPass(c, j), b, J, [layout EXCEPT ![j] = @ \ {i}])
<1> DEFINE after == [layout EXCEPT ![j] = @ \ {i}]
<1>1. /\ layout \in [J -> SUBSET r]
      /\ \A h \in J : layout[h] \subseteq Serving(g, h) /\ Cardinality(layout[h]) = g.need[h] - c[h]
      /\ \A h, k \in J : h # k => layout[h] \cap layout[k] = {}
      /\ \A h \in J : Cardinality((r \ AssignedTo(layout, J)) \cap Serving(g, h)) >= b
  BY DEF CoverAt
<1>2. c \in [Jobs -> Nat] /\ g.need \in [Jobs -> Nat \ {0}] /\ j \in Jobs
  BY CountFacts, GameFacts
<1>3. \A h \in J : after[h] = IF h = j THEN layout[j] \ {i} ELSE layout[h]
  BY <1>1
<1>4. \A h \in J : i \notin after[h]
  BY <1>1, <1>3
<1>5. after \in [J -> SUBSET (r \ {i})]
  <2>1. after = [h \in J |-> after[h]]
    BY <1>1
  <2>2. \A h \in J : after[h] \in SUBSET (r \ {i})
    BY <1>1, <1>3, <1>4
  <2> HIDE DEF after
  <2> QED  BY <2>1, <2>2
<1> HIDE DEF after
<1>6. \A h \in J : after[h] \subseteq Serving(g, h)
  BY <1>1, <1>3
<1>7. ASSUME NEW h \in J PROVE Cardinality(after[h]) = g.need[h] - WithPass(c, j)[h]
  <2>1. CASE h = j
    <3>1. IsFiniteSet(layout[j])
      <4>1. layout[j] \in SUBSET Identities
        BY <1>1
      <4> QED  BY <4>1, IdentitiesAssumption, FS_Subset
    <3>2. Cardinality(layout[j] \ {i}) = Cardinality(layout[j]) - 1
      BY <3>1, FS_RemoveElement
    <3>3. WithPass(c, j)[j] = c[j] + 1
      BY <1>2 DEF WithPass
    <3>4. Cardinality(layout[j]) = g.need[j] - c[j] /\ g.need[j] \in Int /\ c[j] \in Int
      BY <1>1, <1>2
    <3> QED  BY <1>3, <2>1, <3>2, <3>3, <3>4
  <2>2. CASE h # j
    <3>1. WithPass(c, j)[h] = c[h]
      BY <1>2, <2>2 DEF WithPass
    <3> QED  BY <1>1, <1>3, <2>2, <3>1
  <2> QED  BY <2>1, <2>2
<1>8. \A h, k \in J : h # k => after[h] \cap after[k] = {}
  BY <1>1, <1>3
<1>9. (r \ {i}) \ AssignedTo(after, J) = r \ AssignedTo(layout, J)
  BY <1>1, <1>3 DEF AssignedTo
<1>10. \A h \in J : Cardinality(((r \ {i}) \ AssignedTo(after, J)) \cap Serving(g, h)) >= b
  BY <1>1, <1>9
<1>11. CoverAt(g, r \ {i}, WithPass(c, j), b, J, after)
  BY <1>5, <1>6, <1>7, <1>8, <1>10 DEF CoverAt
<1> QED  BY <1>11 DEF after

\* OneIf of the planned fails: a spare takes its place, and one fewer may fail.
LEMMA CoverAfterFailure ==
  ASSUME NEW g \in Games, NEW r \in SUBSET Identities, NEW c \in CountsWithin(g), NEW b \in 0..g.allowance, b # 0,
         NEW J \in SUBSET Jobs, NEW layout, CoverAt(g, r, c, b, J, layout), NEW j \in J, NEW i \in layout[j]
  PROVE  \E after : CoverAt(g, r \ {i}, c, b - 1, J, after)
<1>1. /\ layout \in [J -> SUBSET r]
      /\ \A h \in J : layout[h] \subseteq Serving(g, h) /\ Cardinality(layout[h]) = g.need[h] - c[h]
      /\ \A h, k \in J : h # k => layout[h] \cap layout[k] = {}
      /\ \A h \in J : Cardinality((r \ AssignedTo(layout, J)) \cap Serving(g, h)) >= b
  BY DEF CoverAt
<1>2. b \in Nat /\ b > 0
  BY GameFacts
<1>3. \A s \in SUBSET r : IsFiniteSet(s) /\ Cardinality(s) \in Nat
  <2> SUFFICES ASSUME NEW s \in SUBSET r PROVE IsFiniteSet(s) /\ Cardinality(s) \in Nat
    OBVIOUS
  <2>1. s \in SUBSET Identities
    OBVIOUS
  <2> QED  BY <2>1, IdentitiesAssumption, FS_Subset, FS_CardinalityType
<1> DEFINE spare(h) == (r \ AssignedTo(layout, J)) \cap Serving(g, h)
<1>4. spare(j) # {}
  <2>1. Cardinality(spare(j)) >= b
    BY <1>1
  <2>2. Cardinality({}) = 0
    BY FS_EmptySet
  <2> HIDE DEF spare
  <2> QED  BY <1>2, <2>1, <2>2
<1>5. PICK n \in spare(j) : TRUE
  BY <1>4
<1>6. n \in r /\ n \in Serving(g, j) /\ n # i /\ \A h \in J : n \notin layout[h]
  BY <1>5 DEF AssignedTo
<1> DEFINE after == [layout EXCEPT ![j] = (@ \ {i}) \cup {n}]
<1>7. \A h \in J : after[h] = IF h = j THEN (layout[j] \ {i}) \cup {n} ELSE layout[h]
  BY <1>1
<1>8. \A h \in J : i \notin after[h]
  BY <1>1, <1>6, <1>7
<1>9. after \in [J -> SUBSET (r \ {i})]
  <2>1. after = [h \in J |-> after[h]]
    BY <1>1
  <2>2. \A h \in J : after[h] \in SUBSET (r \ {i})
    BY <1>1, <1>6, <1>7, <1>8
  <2> HIDE DEF after
  <2> QED  BY <2>1, <2>2
<1> HIDE DEF after
<1>10. \A h \in J : after[h] \subseteq Serving(g, h)
  BY <1>1, <1>6, <1>7
<1>11. ASSUME NEW h \in J PROVE Cardinality(after[h]) = g.need[h] - c[h]
  <2>1. CASE h = j
    <3>1. layout[j] \in SUBSET r /\ layout[j] \ {i} \in SUBSET r /\ n \notin layout[j] \ {i}
      BY <1>1, <1>6
    <3>2. Cardinality(layout[j] \ {i}) = Cardinality(layout[j]) - 1 /\ Cardinality(layout[j]) \in Nat
      BY <1>3, <3>1, FS_RemoveElement
    <3>3. Cardinality((layout[j] \ {i}) \cup {n}) = Cardinality(layout[j] \ {i}) + 1
      BY <1>3, <3>1, FS_AddElement
    <3>4. Cardinality((layout[j] \ {i}) \cup {n}) = Cardinality(layout[j])
      BY <3>2, <3>3
    <3> QED  BY <1>1, <1>7, <2>1, <3>4
  <2>2. CASE h # j
    BY <1>1, <1>7, <2>2
  <2> QED  BY <2>1, <2>2
<1>12. \A h, k \in J : h # k => after[h] \cap after[k] = {}
  BY <1>1, <1>6, <1>7
<1>13. (r \ {i}) \ AssignedTo(after, J) = (r \ AssignedTo(layout, J)) \ {n}
  BY <1>1, <1>6, <1>7 DEF AssignedTo
<1>14. ASSUME NEW h \in J
       PROVE  Cardinality(((r \ {i}) \ AssignedTo(after, J)) \cap Serving(g, h)) >= b - 1
  <2>1. ((r \ {i}) \ AssignedTo(after, J)) \cap Serving(g, h) = spare(h) \ {n}
    BY <1>13
  <2>2. spare(h) \in SUBSET r /\ Cardinality(spare(h)) >= b
    BY <1>1
  <2> HIDE DEF spare
  <2>3. Cardinality(spare(h)) \in Nat /\ Cardinality(spare(h) \ {n}) >= Cardinality(spare(h)) - 1
        /\ Cardinality(spare(h) \ {n}) \in Nat
    <3>1. IsFiniteSet(spare(h)) /\ Cardinality(spare(h)) \in Nat
      BY <1>3, <2>2
    <3>2. IsFiniteSet(spare(h) \ {n}) /\ Cardinality(spare(h) \ {n}) \in Nat
      BY <3>1, FS_Subset, FS_CardinalityType
    <3>3. CASE n \in spare(h)
      <4>1. Cardinality(spare(h) \ {n}) = Cardinality(spare(h)) - 1
        BY <3>1, <3>3, FS_RemoveElement
      <4> DEFINE x == Cardinality(spare(h) \ {n})
                 y == Cardinality(spare(h))
      <4>2. x = y - 1 /\ x \in Nat /\ y \in Nat
        BY <3>1, <3>2, <4>1
      <4> HIDE DEF x, y
      <4>3. y \in Nat /\ x >= y - 1 /\ x \in Nat
        BY <4>2
      <4> QED  BY <4>3 DEF x, y
    <3>4. CASE n \notin spare(h)
      <4>1. spare(h) \ {n} = spare(h)
        BY <3>4
      <4> DEFINE y == Cardinality(spare(h))
      <4>2. y \in Nat
        BY <3>1
      <4> HIDE DEF y
      <4>3. y \in Nat /\ y >= y - 1
        BY <4>2
      <4> QED  BY <4>1, <4>3 DEF y
    <3> QED  BY <3>3, <3>4
  <2> DEFINE x == Cardinality(spare(h) \ {n})
             y == Cardinality(spare(h))
  <2>4. y >= b /\ x >= y - 1 /\ x \in Nat /\ y \in Nat
    BY <2>2, <2>3
  <2> HIDE DEF x, y
  <2>5. x >= b - 1
    BY <1>2, <2>4
  <2> QED  BY <2>1, <2>5, Zenon DEF x
<1>15. CoverAt(g, r \ {i}, c, b - 1, J, after)
  BY <1>9, <1>10, <1>11, <1>12, <1>14 DEF CoverAt
<1> QED  BY <1>15

\* A cover is worth its jobs: induction over who remains.
LEMMA CoversWorth ==
  ASSUME ExactAssumption, NEW g \in Games, NEW C, Solves(C, g)
  PROVE  \A r \in SUBSET Identities : WorthCovers(C, g, r)
<1> DEFINE Good == {r \in SUBSET Identities : WorthCovers(C, g, r)}
<1>0. \A r \in SUBSET Identities : Valued(C, g, r) /\ WorthDone(C, g, r)
  BY AllValued, DoneIsWorth
<1>1. ASSUME NEW r \in SUBSET Identities, \A i \in r : WorthCovers(C, g, r \ {i})
      PROVE  WorthCovers(C, g, r)
  <2> SUFFICES ASSUME NEW c \in CountsWithin(g), NEW b \in 0..g.allowance, NEW J \in SUBSET Jobs,
                      NEW layout, CoverAt(g, r, c, b, J, layout)
               PROVE  C[<<r, c, b>>].value >= Cardinality(Finished(g, c) \cup J)
    BY DEF WorthCovers
  <2>1. /\ layout \in [J -> SUBSET r]
        /\ \A h \in J : layout[h] \subseteq Serving(g, h) /\ Cardinality(layout[h]) = g.need[h] - c[h]
    BY DEF CoverAt
  <2>2. c \in [Jobs -> Nat] /\ g.need \in [Jobs -> Nat \ {0}] /\ \A h \in Jobs : c[h] <= g.need[h]
    BY CountFacts, GameFacts
  <2> DEFINE worth == Cardinality(Finished(g, c) \cup J)
  <2>3. worth \in Nat
    <3>1. Finished(g, c) \cup J \in SUBSET Jobs
      BY DEF Finished
    <3> QED  BY <3>1, JobsCounted
  <2>4. CASE \A j \in J : layout[j] = {}
    <3>1. \A j \in J : g.need[j] = c[j]
      <4>1. \A j \in J : g.need[j] - c[j] = 0
        BY <2>1, <2>4, FS_EmptySet
      <4> QED  BY <2>2, <4>1
    <3>2. J \subseteq Finished(g, c)
      BY <2>2, <3>1 DEF Finished
    <3>3. Finished(g, c) \cup J = Finished(g, c)
      BY <3>2
    <3> QED  BY <1>0, <3>3 DEF WorthDone
  <2>5. ASSUME NEW j \in J, NEW i \in layout[j] PROVE C[<<r, c, b>>].value >= worth
    <3>1. i \in r /\ j \in Jobs /\ j \in g.compat[i] /\ i \in Identities
      BY <2>1 DEF Serving
    <3>2. c[j] < g.need[j]
      <4>1. IsFiniteSet(layout[j])
        <5>1. layout[j] \in SUBSET Identities
          BY <2>1
        <5> QED  BY <5>1, IdentitiesAssumption, FS_Subset
      <4>2. Cardinality(layout[j]) # 0 /\ Cardinality(layout[j]) \in Nat
        BY <4>1, FS_EmptySet, FS_CardinalityType
      <4>3. Cardinality(layout[j]) = g.need[j] - c[j] /\ g.need[j] \in Nat /\ c[j] \in Nat
        BY <2>1, <2>2
      <4> QED  BY <4>2, <4>3
    <3> DEFINE a == <<j, i>>
    <3>3. a \in Options(g, r, c) /\ a[1] = j /\ a[2] = i
      BY <3>1, <3>2 DEF Options
    <3> HIDE DEF a
    <3>4. r \ {i} \in SUBSET Identities /\ WithPass(c, j) \in CountsWithin(g)
          /\ Finished(g, c) \subseteq Finished(g, WithPass(c, j))
      BY <3>3, OptionFacts, PassesFinish
    <3>5. C[<<r \ {i}, WithPass(c, j), b>>].value >= worth
      <4>1. CoverAt(g, r \ {i}, WithPass(c, j), b, J, [layout EXCEPT ![j] = @ \ {i}])
        BY CoverAfterPass
      <4> DEFINE more == Finished(g, WithPass(c, j)) \cup J
      <4>2. C[<<r \ {i}, WithPass(c, j), b>>].value >= Cardinality(more)
        <5>1. WorthCovers(C, g, r \ {i})
          BY <1>1, <3>1
        <5> QED  BY <3>4, <4>1, <5>1 DEF WorthCovers
      <4>3. Cardinality(more) \in Nat /\ worth <= Cardinality(more)
        <5>1. more \in SUBSET Jobs /\ Finished(g, c) \cup J \subseteq more
          BY <3>4 DEF Finished
        <5>2. IsFiniteSet(more) /\ Cardinality(more) \in Nat
          BY <5>1, JobsCounted
        <5> HIDE DEF more
        <5> QED  BY <5>1, <5>2, FS_Subset
      <4>4. C[<<r \ {i}, WithPass(c, j), b>>].value \in Nat
        <5>1. C[<<r \ {i}, WithPass(c, j), b>>].value \in 0..Cardinality(Jobs)
          BY <1>0, <3>4 DEF Valued
        <5> QED  BY <5>1, JobsCounted
      <4> DEFINE size == Cardinality(more)
      <4>5. C[<<r \ {i}, WithPass(c, j), b>>].value >= size /\ size \in Nat /\ worth <= size
        BY <4>2, <4>3
      <4> HIDE DEF size, worth
      <4> QED  BY <2>3, <4>4, <4>5
    <3>6. ASSUME b # 0 PROVE C[<<r \ {i}, c, b - 1>>].value >= worth
      <4>1. PICK after : CoverAt(g, r \ {i}, c, b - 1, J, after)
        BY <3>6, CoverAfterFailure
      <4>2. b - 1 \in 0..g.allowance
        BY <3>6, GameFacts
      <4>3. WorthCovers(C, g, r \ {i})
        BY <1>1, <3>1
      <4> QED  BY <4>1, <4>2, <4>3 DEF WorthCovers
    <3>7. Worst(C, r, c, b, j, i) >= worth
      <4>1. Valued(C, g, r \ {i})
        BY <1>0, <3>4
      <4>2. Worst(C, r, c, b, a[1], a[2]) >= worth
        <5> HIDE DEF worth
        <5> QED  BY <2>3, <3>3, <3>5, <3>6, <4>1, WorstAtLeast
      <4> QED  BY <3>3, <4>2
    <3>8. Worst(C, r, c, b, j, i) <= C[<<r, c, b>>].value
      <4>1. Worst(C, r, c, b, a[1], a[2]) <= C[<<r, c, b>>].value
        BY <3>3, ValueIsBest
      <4> QED  BY <3>3, <4>1
    <3>9. Worst(C, r, c, b, j, i) \in Int /\ C[<<r, c, b>>].value \in Int
      <4>1. WorstFits(Worst(C, r, c, b, a[1], a[2]), C, r, c, b, a)
        BY <1>0, <3>3, <3>4, WorstIs
      <4>2. Worst(C, r, c, b, j, i) \in 0..Cardinality(Jobs)
        BY <3>3, <4>1 DEF WorstFits
      <4>3. C[<<r, c, b>>].value \in 0..Cardinality(Jobs)
        BY <1>0 DEF Valued
      <4> QED  BY <4>2, <4>3, JobsCounted
    <3> HIDE DEF worth
    <3> QED  BY <2>3, <3>7, <3>8, <3>9
  <2> QED  BY <2>4, <2>5
<1>2. {} \in Good
  BY <1>1
<1>3. ASSUME NEW r \in SUBSET Identities, r # {}, \A i \in r : r \ {i} \in Good PROVE r \in Good
  BY <1>1, <1>3
<1>4. SUBSET Identities \subseteq Good
  <2> HIDE DEF Good
  <2> QED  BY <1>2, <1>3, IdentitiesAssumption, AllSubsets
<1> QED  BY <1>4

\* A reserve cover of some jobs, such as certify constructs, is worth
\* these jobs to the exact solver: the solver never certifies less than a
\* cover that exists.
THEOREM CoversAlways == ASSUME ExactAssumption PROVE ExactSpec => []CoversAreWorth
<1>1. PlayInv => CoversAreWorth
  <2> SUFFICES ASSUME PlayInv, NEW J \in SUBSET Unresolved,
                      NEW layout \in [J -> SUBSET unused], ReserveCovers(layout, J)
               PROVE  Value >= Cardinality(Completed) + Cardinality(J)
    BY DEF CoversAreWorth
  <2> DEFINE C == Cache[game]
  <2>1. /\ game \in Games /\ unused \in SUBSET Identities /\ passes \in CountsWithin(game)
        /\ Remaining \in 0..game.allowance
    BY PositionFacts DEF PlayInv, PlayTyped
  <2>2. J \in SUBSET Jobs
    BY DEF Unresolved
  <2>3. /\ \A j \in J : layout[j] \subseteq unused \cap Compatible(j) /\ Cardinality(layout[j]) = Deficit(j)
        /\ \A j, h \in J : j # h => layout[j] \cap layout[h] = {}
        /\ \A j \in J : Coverage(unused \ UNION {layout[h] : h \in J}, j) >= Remaining
    BY DEF ReserveCovers
  <2>4. \A j : Compatible(j) = Serving(game, j)
    BY DEF Compatible, Serving
  <2>5. CoverAt(game, unused, passes, Remaining, J, layout)
    <3>1. \A j \in J : layout[j] \subseteq Serving(game, j) /\ Cardinality(layout[j]) = game.need[j] - passes[j]
      BY <2>3, <2>4 DEF Deficit
    <3>2. \A j \in J : Cardinality((unused \ AssignedTo(layout, J)) \cap Serving(game, j)) >= Remaining
      BY <2>3, <2>4 DEF Coverage, AssignedTo
    <3> QED  BY <2>3, <3>1, <3>2 DEF CoverAt
  <2>6. Value >= Cardinality(Finished(game, passes) \cup J)
    <3>1. WorthCovers(C, game, unused)
      BY <2>1, CacheSolves, CoversWorth
    <3>2. C[<<unused, passes, Remaining>>].value >= Cardinality(Finished(game, passes) \cup J)
      BY <2>1, <2>2, <2>5, <3>1 DEF WorthCovers
    <3> QED  BY <3>2 DEF Value, Position
  <2>7. Finished(game, passes) = Completed
    BY DEF Finished, Completed
  <2>8. Cardinality(Completed \cup J) = Cardinality(Completed) + Cardinality(J)
    <3>1. Completed \in SUBSET Jobs /\ Completed \cap J = {}
      <4>1. passes \in [Jobs -> Nat] /\ game.need \in [Jobs -> Nat \ {0}]
        BY <2>1, CountFacts, GameFacts
      <4> QED  BY <4>1 DEF Completed, Unresolved
    <3>2. IsFiniteSet(Completed) /\ IsFiniteSet(J)
      BY <2>2, <3>1, JobsCounted
    <3>3. Cardinality(Completed \cup J) = Cardinality(Completed) + Cardinality(J) - Cardinality(Completed \cap J)
      BY <3>2, FS_Union
    <3>4. Cardinality(Completed \cap J) = 0
      BY <3>1, FS_EmptySet
    <3>5. Cardinality(Completed) \in Nat /\ Cardinality(J) \in Nat
      BY <3>2, FS_CardinalityType
    <3> QED  BY <3>3, <3>4, <3>5
  <2> QED  BY <2>6, <2>7, <2>8
<1> QED  BY <1>1, PlayInvAlways, PTL

-------------------------------------------------------------------------------
(* Augmenting paths                                                        *)

\* How many identities the jobs of D own.
Held(owner, D) == Cardinality({i \in Identities : owner[i] \in D})
\* Owners of their own kind only: available and compatible.
Proper(g, idle, owner) ==
  \A i \in Identities : owner[i] # NoJob => i \in idle /\ owner[i] \in g.compat[i]
Owners == [Identities -> Jobs \cup {NoJob}]
Wanted(g, idle, j) == {i \in idle : j \in g.compat[i]}
OneIf(j, D) == IF j \in D THEN 1 ELSE 0

\* What a search ends with that began from s: if it finds somebody for j, one
\* identity more is owned, by j, and whoever was seen keeps its owner; if not,
\* nothing has changed and all that j and the owners of those seen since want
\* was seen.
FoundFor(g, idle, j, s, end) ==
  /\ Proper(g, idle, s.owner) => Proper(g, idle, end.owner)
  /\ \A i \in s.seen : end.owner[i] = s.owner[i]
  /\ \A D \in SUBSET Jobs : Held(end.owner, D) = Held(s.owner, D) + OneIf(j, D)
ClosedFor(g, idle, j, s, end) ==
  /\ end.owner = s.owner
  /\ Wanted(g, idle, j) \subseteq end.seen
  /\ \A i \in end.seen \ s.seen : s.owner[i] \in Jobs /\ Wanted(g, idle, s.owner[i]) \subseteq end.seen
SearchOf(g, idle, j, s, end) ==
  /\ end \in Searches /\ s.seen \subseteq end.seen
  /\ end.found => FoundFor(g, idle, j, s, end)
  /\ ~end.found => ClosedFor(g, idle, j, s, end)

LEMMA NobodyIsJob == NoJob \notin Jobs
  BY JobsAssumption DEF NoJob

\* The steps of a search.
LEMMA SearchFields ==
  ASSUME NEW s \in Searches
  PROVE  s.owner \in Owners /\ s.seen \in SUBSET Identities /\ s.found \in BOOLEAN
  BY DEF Searches, Owners

LEMMA SeeingIs ==
  ASSUME NEW s \in Searches, NEW i \in Identities
  PROVE  /\ Seeing(s, i) \in Searches
         /\ Seeing(s, i).owner = s.owner /\ Seeing(s, i).seen = s.seen \cup {i}
  BY DEF Searches, Seeing

LEMMA TakenIs ==
  ASSUME NEW s \in Searches, NEW i \in Identities, NEW j \in Jobs
  PROVE  /\ Taken(s, j, i) \in Searches /\ Taken(s, j, i).found
         /\ Taken(s, j, i).owner = [s.owner EXCEPT ![i] = j] /\ Taken(s, j, i).seen = s.seen
  BY DEF Searches, Taken

LEMMA GivenUpIs ==
  ASSUME NEW s \in Searches
  PROVE  /\ [s EXCEPT !.found = FALSE] \in Searches /\ ~[s EXCEPT !.found = FALSE].found
         /\ [s EXCEPT !.found = FALSE].owner = s.owner /\ [s EXCEPT !.found = FALSE].seen = s.seen
  BY DEF Searches

\* An identity changes hands.
LEMMA Handed ==
  ASSUME NEW owner \in Owners, NEW i \in Identities, NEW j \in Jobs, NEW D \in SUBSET Jobs
  PROVE  /\ [owner EXCEPT ![i] = j] \in Owners
         /\ Held(owner, D) \in Nat
         /\ Held([owner EXCEPT ![i] = j], D) = Held(owner, D) - OneIf(owner[i], D) + OneIf(j, D)
<1> DEFINE next == [owner EXCEPT ![i] = j]
           old == {k \in Identities : owner[k] \in D}
           new == {k \in Identities : next[k] \in D}
<1>1. next \in Owners /\ next[i] = j /\ \A k \in Identities : k # i => next[k] = owner[k]
  BY DEF Owners
<1>2. IsFiniteSet(old) /\ IsFiniteSet(new)
  BY IdentitiesAssumption, FS_Subset
<1>3. old \ {i} = new \ {i}
  BY <1>1
<1>4. IsFiniteSet(old \ {i})
  BY <1>2, FS_Subset
<1>5. Cardinality(old) \in Nat /\ Cardinality(new) \in Nat /\ Cardinality(old \ {i}) \in Nat
  BY <1>2, <1>4, FS_CardinalityType
<1>6. Cardinality(old) = Cardinality(old \ {i}) + OneIf(owner[i], D)
  <2>1. i \in old <=> owner[i] \in D
    OBVIOUS
  <2> HIDE DEF old
  <2>2. Cardinality(old \ {i}) = IF i \in old THEN Cardinality(old) - 1 ELSE Cardinality(old)
    BY <1>2, FS_RemoveElement
  <2> QED  BY <1>5, <2>1, <2>2 DEF OneIf
<1>7. Cardinality(new) = Cardinality(old \ {i}) + OneIf(j, D)
  <2>1. i \in new <=> j \in D
    BY <1>1
  <2> HIDE DEF old, new
  <2>2. Cardinality(new \ {i}) = IF i \in new THEN Cardinality(new) - 1 ELSE Cardinality(new)
    BY <1>2, FS_RemoveElement
  <2>3. Cardinality(new \ {i}) = Cardinality(old \ {i})
    BY <1>3
  <2> DEFINE all == Cardinality(new)
             rest == Cardinality(new \ {i})
             before == Cardinality(old \ {i})
  <2>4. all \in Nat /\ before \in Nat /\ rest = before /\ rest = IF i \in new THEN all - 1 ELSE all
    BY <1>5, <2>2, <2>3
  <2> HIDE DEF all, rest, before, next
  <2>5. all = before + OneIf(j, D)
    BY <2>1, <2>4 DEF OneIf
  <2> QED  BY <2>5 DEF all, before
<1>8. Held(owner, D) = Cardinality(old) /\ Held(next, D) = Cardinality(new)
  BY DEF Held
<1>9. OneIf(owner[i], D) \in Int /\ OneIf(j, D) \in Int
  BY DEF OneIf
<1> HIDE DEF next, old, new
<1>10. Held(next, D) = Held(owner, D) - OneIf(owner[i], D) + OneIf(j, D)
  BY <1>5, <1>6, <1>7, <1>8, <1>9
<1>11. next \in Owners /\ Held(owner, D) \in Nat
  BY <1>1, <1>5, <1>8
<1> QED  BY <1>10, <1>11, Zenon DEF next

Unseen(s) == Identities \ s.seen
\* What f gives to a search for any job that has seen more than s.
SoundBeyond(g, idle, f, s) ==
  \A k \in Jobs : \A t \in Searches :
    Cardinality(Unseen(t)) < Cardinality(Unseen(s)) => SearchOf(g, idle, k, t, f[<<k, t>>])

LEMMA SeenMore ==
  ASSUME NEW s \in Searches, NEW t \in Searches, NEW i \in Identities \ s.seen, s.seen \cup {i} \subseteq t.seen
  PROVE  Cardinality(Unseen(t)) < Cardinality(Unseen(s))
<1>1. IsFiniteSet(Unseen(s)) /\ IsFiniteSet(Unseen(t))
  BY IdentitiesAssumption, FS_Subset DEF Unseen
<1>2. Unseen(t) \subseteq Unseen(s) /\ Unseen(t) # Unseen(s)
  BY DEF Unseen
<1>3. Cardinality(Unseen(t)) \in Nat /\ Cardinality(Unseen(s)) \in Nat
  BY <1>1, FS_CardinalityType
<1>4. /\ Cardinality(Unseen(t)) <= Cardinality(Unseen(s))
      /\ Cardinality(Unseen(t)) = Cardinality(Unseen(s)) => Unseen(t) = Unseen(s)
  BY <1>1, <1>2, FS_Subset
<1> QED  BY <1>2, <1>3, <1>4

\* Somebody without an owner is taken.
LEMMA TakenFree ==
  ASSUME NEW g \in Games, NEW idle \in SUBSET Identities, NEW j \in Jobs, NEW s \in Searches,
         NEW i \in idle \ s.seen, j \in g.compat[i], s.owner[i] = NoJob
  PROVE  SearchOf(g, idle, j, s, Taken(Seeing(s, i), j, i))
<1> DEFINE end == Taken(Seeing(s, i), j, i)
<1>1. i \in Identities
  OBVIOUS
<1>2. Seeing(s, i) \in Searches /\ Seeing(s, i).owner = s.owner /\ Seeing(s, i).seen = s.seen \cup {i}
  BY <1>1, SeeingIs
<1>3. /\ end \in Searches /\ end.found
      /\ end.owner = [Seeing(s, i).owner EXCEPT ![i] = j] /\ end.seen = Seeing(s, i).seen
  BY <1>1, <1>2, TakenIs
<1> HIDE DEF end
<1>4. end.owner = [s.owner EXCEPT ![i] = j] /\ end.seen = s.seen \cup {i}
  BY <1>2, <1>3
<1>5. s.owner \in Owners
  BY SearchFields
<1>6. ASSUME NEW D \in SUBSET Jobs PROVE Held(end.owner, D) = Held(s.owner, D) + OneIf(j, D)
  <2>1. /\ Held(s.owner, D) \in Nat
        /\ Held([s.owner EXCEPT ![i] = j], D) = Held(s.owner, D) - OneIf(s.owner[i], D) + OneIf(j, D)
    BY <1>1, <1>5, Handed
  <2>2. OneIf(s.owner[i], D) = 0 /\ OneIf(j, D) \in Int
    BY NobodyIsJob DEF OneIf
  <2> QED  BY <1>4, <2>1, <2>2
<1>7. \A k \in Identities : end.owner[k] = IF k = i THEN j ELSE s.owner[k]
  BY <1>4, <1>5 DEF Owners
<1>8. Proper(g, idle, s.owner) => Proper(g, idle, end.owner)
  BY <1>7 DEF Proper
<1>9. \A k \in s.seen : end.owner[k] = s.owner[k]
  BY <1>7, SearchFields
<1>10. FoundFor(g, idle, j, s, end)
  BY <1>6, <1>8, <1>9 DEF FoundFor
<1>11. SearchOf(g, idle, j, s, end)
  BY <1>3, <1>4, <1>10 DEF SearchOf
<1> QED  BY <1>11 DEF end

\* Somebody is taken from an owner that found another.
LEMMA TakenMoved ==
  ASSUME NEW g \in Games, NEW idle \in SUBSET Identities, NEW j \in Jobs, NEW s \in Searches,
         NEW i \in idle \ s.seen, j \in g.compat[i], s.owner[i] \in Jobs,
         NEW moved, SearchOf(g, idle, s.owner[i], Seeing(s, i), moved), moved.found
  PROVE  SearchOf(g, idle, j, s, Taken(moved, j, i))
<1> DEFINE end == Taken(moved, j, i)
           k == s.owner[i]
           t == Seeing(s, i)
<1>1. i \in Identities
  OBVIOUS
<1>2. t \in Searches /\ t.owner = s.owner /\ t.seen = s.seen \cup {i}
  BY <1>1, SeeingIs
<1>3. moved \in Searches /\ t.seen \subseteq moved.seen /\ FoundFor(g, idle, k, t, moved)
  BY DEF SearchOf
<1>4. end \in Searches /\ end.found /\ end.owner = [moved.owner EXCEPT ![i] = j] /\ end.seen = moved.seen
  BY <1>1, <1>3, TakenIs
<1> HIDE DEF end, t
<1>5. moved.owner \in Owners /\ s.owner \in Owners /\ s.seen \in SUBSET Identities
  BY <1>3, SearchFields
<1>6. moved.owner[i] = k
  BY <1>2, <1>3 DEF FoundFor
<1>7. ASSUME NEW D \in SUBSET Jobs PROVE Held(end.owner, D) = Held(s.owner, D) + OneIf(j, D)
  <2>1. Held(moved.owner, D) = Held(s.owner, D) + OneIf(k, D)
    BY <1>2, <1>3 DEF FoundFor
  <2>2. Held([moved.owner EXCEPT ![i] = j], D) = Held(moved.owner, D) - OneIf(moved.owner[i], D) + OneIf(j, D)
    BY <1>1, <1>5, Handed
  <2>3. Held(s.owner, D) \in Nat
    BY <1>1, <1>5, Handed
  <2>4. OneIf(k, D) \in Int /\ OneIf(j, D) \in Int
    BY DEF OneIf
  <2>5. Held(end.owner, D) = Held(moved.owner, D) - OneIf(k, D) + OneIf(j, D)
    BY <1>4, <1>6, <2>2
  <2> HIDE DEF k
  <2> QED  BY <2>1, <2>3, <2>4, <2>5
<1>8. \A h \in Identities : end.owner[h] = IF h = i THEN j ELSE moved.owner[h]
  BY <1>4, <1>5 DEF Owners
<1>9. Proper(g, idle, s.owner) => Proper(g, idle, end.owner)
  <2>1. Proper(g, idle, s.owner) => Proper(g, idle, moved.owner)
    BY <1>2, <1>3 DEF FoundFor
  <2> QED  BY <1>8, <2>1 DEF Proper
<1>10. \A h \in s.seen : end.owner[h] = s.owner[h]
  <2>1. \A h \in s.seen : moved.owner[h] = s.owner[h]
    BY <1>2, <1>3 DEF FoundFor
  <2> QED  BY <1>5, <1>8, <2>1
<1>11. FoundFor(g, idle, j, s, end)
  BY <1>7, <1>9, <1>10 DEF FoundFor
<1>12. s.seen \subseteq end.seen
  BY <1>2, <1>3, <1>4
<1>13. SearchOf(g, idle, j, s, end)
  BY <1>4, <1>11, <1>12 DEF SearchOf
<1> QED  BY <1>13 DEF end

\* Nobody is found for the owner of somebody seen: the search goes on.
LEMMA GoneOn ==
  ASSUME NEW g \in Games, NEW idle \in SUBSET Identities, NEW j \in Jobs, NEW s \in Searches,
         NEW i \in idle \ s.seen, s.owner[i] \in Jobs,
         NEW moved, SearchOf(g, idle, s.owner[i], Seeing(s, i), moved), ~moved.found,
         NEW end, SearchOf(g, idle, j, moved, end)
  PROVE  SearchOf(g, idle, j, s, end)
<1> DEFINE k == s.owner[i]
           t == Seeing(s, i)
<1>1. i \in Identities
  OBVIOUS
<1>2. t \in Searches /\ t.owner = s.owner /\ t.seen = s.seen \cup {i}
  BY <1>1, SeeingIs
<1>3. moved \in Searches /\ t.seen \subseteq moved.seen /\ ClosedFor(g, idle, k, t, moved)
  BY DEF SearchOf
<1> HIDE DEF t
<1>4. moved.owner = s.owner /\ s.seen \subseteq moved.seen
  BY <1>2, <1>3 DEF ClosedFor
<1>5. end \in Searches /\ moved.seen \subseteq end.seen
  BY DEF SearchOf
<1>6. ASSUME end.found PROVE FoundFor(g, idle, j, s, end)
  <2>1. FoundFor(g, idle, j, moved, end)
    BY <1>6 DEF SearchOf
  <2> QED  BY <1>4, <2>1 DEF FoundFor
<1>7. ASSUME ~end.found PROVE ClosedFor(g, idle, j, s, end)
  <2>1. ClosedFor(g, idle, j, moved, end)
    BY <1>7 DEF SearchOf
  <2>2. end.owner = s.owner /\ Wanted(g, idle, j) \subseteq end.seen
    BY <1>4, <2>1 DEF ClosedFor
  <2>3. ASSUME NEW h \in end.seen \ s.seen
        PROVE  s.owner[h] \in Jobs /\ Wanted(g, idle, s.owner[h]) \subseteq end.seen
    <3>1. CASE h \notin moved.seen
      BY <1>4, <2>1, <3>1 DEF ClosedFor
    <3>2. CASE h = i
      <4>1. Wanted(g, idle, s.owner[i]) \subseteq moved.seen
        BY <1>3 DEF ClosedFor
      <4> QED  BY <1>5, <3>2, <4>1
    <3>3. CASE h \in moved.seen /\ h # i
      <4>1. h \in moved.seen \ t.seen
        BY <1>2, <3>3
      <4>2. t.owner[h] \in Jobs /\ Wanted(g, idle, t.owner[h]) \subseteq moved.seen
        BY <1>3, <4>1 DEF ClosedFor
      <4> QED  BY <1>2, <1>5, <4>2
    <3> QED  BY <3>1, <3>2, <3>3
  <2> QED  BY <2>2, <2>3 DEF ClosedFor
<1>8. s.seen \subseteq end.seen
  BY <1>4, <1>5
<1> QED  BY <1>5, <1>6, <1>7, <1>8 DEF SearchOf

\* A step is sound where the searches that have seen more are.
LEMMA AugmentStep ==
  ASSUME NEW g \in Games, NEW idle \in SUBSET Identities, NEW f, NEW j \in Jobs, NEW s \in Searches,
         SoundBeyond(g, idle, f, s)
  PROVE  SearchOf(g, idle, j, s, AugmentNext(g, idle, f, j, s))
<1> DEFINE A == Askable(g, j, idle, s.seen)
           i == Least(A)
           t == Seeing(s, i)
<1>1. CASE A = {}
  <2>1. AugmentNext(g, idle, f, j, s) = [s EXCEPT !.found = FALSE]
    BY <1>1, Zenon DEF AugmentNext
  <2> DEFINE end == [s EXCEPT !.found = FALSE]
  <2>2. end \in Searches /\ ~end.found /\ end.owner = s.owner /\ end.seen = s.seen
    BY GivenUpIs
  <2> HIDE DEF end
  <2>3. Wanted(g, idle, j) \subseteq s.seen
    BY <1>1 DEF Askable, Wanted
  <2>4. ClosedFor(g, idle, j, s, end)
    BY <2>2, <2>3 DEF ClosedFor
  <2>5. SearchOf(g, idle, j, s, end)
    BY <2>2, <2>4 DEF SearchOf
  <2> QED  BY <2>1, <2>5 DEF end
<1>2. CASE A # {}
  <2>1. i \in A
    <3>1. A \subseteq Identities
      BY DEF Askable
    <3> HIDE DEF A
    <3>2. IsFiniteSet(A)
      BY <3>1, IdentitiesAssumption, FS_Subset
    <3>3. A \subseteq Int
      BY <3>1, IdentitiesAssumption
    <3> QED  BY <1>2, <3>2, <3>3, LeastIs
  <2>2. i \in idle \ s.seen /\ j \in g.compat[i]
    BY <2>1 DEF Askable
  <2>3. AugmentNext(g, idle, f, j, s) = AugmentFrom(f, j, s, i)
    BY <1>2, Zenon DEF AugmentNext
  <2> HIDE DEF A, i
  <2>4. i \in Identities /\ i \in Identities \ s.seen
    BY <2>2
  <2>5. t \in Searches /\ t.owner = s.owner /\ t.seen = s.seen \cup {i}
    BY <2>4, SeeingIs
  <2> HIDE DEF t
  <2>6. s.owner[i] \in Jobs \cup {NoJob}
    BY <2>4, SearchFields DEF Owners
  <2>7. CASE s.owner[i] = NoJob
    <3>1. AugmentFrom(f, j, s, i) = Taken(Seeing(s, i), j, i)
      BY <2>7, Zenon DEF AugmentFrom
    <3> QED  BY <2>2, <2>3, <2>7, <3>1, TakenFree
  <2>8. CASE s.owner[i] # NoJob
    <3> DEFINE moved == f[<<s.owner[i], t>>]
    <3>1. s.owner[i] \in Jobs
      BY <2>6, <2>8
    <3>2. Cardinality(Unseen(t)) < Cardinality(Unseen(s))
      BY <2>4, <2>5, SeenMore
    <3>3. SearchOf(g, idle, s.owner[i], t, moved)
      BY <2>5, <3>1, <3>2 DEF SoundBeyond
    <3>4. AugmentFrom(f, j, s, i) = IF moved.found THEN Taken(moved, j, i) ELSE f[<<j, moved>>]
      BY <2>8, Zenon DEF AugmentFrom, t
    <3> HIDE DEF moved
    <3>5. moved \in Searches /\ t.seen \subseteq moved.seen
      BY <3>3 DEF SearchOf
    <3>6. SearchOf(g, idle, s.owner[i], Seeing(s, i), moved)
      BY <3>3 DEF t
    <3>7. CASE moved.found
      <4>1. SearchOf(g, idle, j, s, Taken(moved, j, i))
        BY <2>2, <3>1, <3>6, <3>7, TakenMoved
      <4> QED  BY <2>3, <3>4, <3>7, <4>1
    <3>8. CASE ~moved.found
      <4>1. Cardinality(Unseen(moved)) < Cardinality(Unseen(s))
        BY <2>4, <2>5, <3>5, SeenMore
      <4>2. SearchOf(g, idle, j, moved, f[<<j, moved>>])
        BY <3>5, <4>1 DEF SoundBeyond
      <4>3. SearchOf(g, idle, j, s, f[<<j, moved>>])
        BY <2>2, <3>1, <3>6, <3>8, <4>2, GoneOn
      <4> QED  BY <2>3, <3>4, <3>8, <4>3
    <3> QED  BY <3>7, <3>8
  <2> QED  BY <2>7, <2>8
<1> QED  BY <1>1, <1>2

AugmentUpTo(f, g, idle, n) ==
  \A j \in Jobs : \A s \in Searches :
    Cardinality(Unseen(s)) < n => f[<<j, s>>] = AugmentNext(g, idle, f, j, s)
AugmentIs(f, g, idle) ==
  f = [call \in Jobs \X Searches |-> AugmentNext(g, idle, f, call[1], call[2])]
AlikeBeyond(f, h, s) ==
  \A k \in Jobs : \A t \in Searches :
    Cardinality(Unseen(t)) < Cardinality(Unseen(s)) => f[<<k, t>>] = h[<<k, t>>]

LEMMA UnseenCounted ==
  ASSUME NEW s \in Searches
  PROVE  Cardinality(Unseen(s)) \in Nat /\ Cardinality(Unseen(s)) <= Cardinality(Identities)
<1>1. Unseen(s) \subseteq Identities
  BY DEF Unseen
<1>2. IsFiniteSet(Unseen(s)) /\ Cardinality(Unseen(s)) <= Cardinality(Identities)
  BY <1>1, IdentitiesAssumption, FS_Subset
<1> QED  BY <1>2, FS_CardinalityType

\* A step asks only for searches that have seen more.
LEMMA AugmentDepends ==
  ASSUME NEW g \in Games, NEW idle \in SUBSET Identities, NEW j \in Jobs, NEW s \in Searches,
         NEW f, NEW h, SoundBeyond(g, idle, f, s), AlikeBeyond(f, h, s)
  PROVE  AugmentNext(g, idle, f, j, s) = AugmentNext(g, idle, h, j, s)
<1> DEFINE A == Askable(g, j, idle, s.seen)
           i == Least(A)
           t == Seeing(s, i)
<1>1. CASE A = {}
  BY <1>1, Zenon DEF AugmentNext
<1>2. CASE A # {}
  <2>1. i \in A
    <3>1. A \subseteq Identities
      BY DEF Askable
    <3> HIDE DEF A
    <3>2. IsFiniteSet(A)
      BY <3>1, IdentitiesAssumption, FS_Subset
    <3>3. A \subseteq Int
      BY <3>1, IdentitiesAssumption
    <3> QED  BY <1>2, <3>2, <3>3, LeastIs
  <2>2. i \in idle \ s.seen /\ j \in g.compat[i]
    BY <2>1 DEF Askable
  <2>3. AugmentNext(g, idle, f, j, s) = AugmentFrom(f, j, s, i)
    BY <1>2, Zenon DEF AugmentNext
  <2>4. AugmentNext(g, idle, h, j, s) = AugmentFrom(h, j, s, i)
    BY <1>2, Zenon DEF AugmentNext
  <2> HIDE DEF A, i
  <2>5. i \in Identities /\ i \in Identities \ s.seen
    BY <2>2
  <2>6. t \in Searches /\ t.owner = s.owner /\ t.seen = s.seen \cup {i}
    BY <2>5, SeeingIs
  <2> HIDE DEF t
  <2>7. s.owner[i] \in Jobs \cup {NoJob}
    BY <2>5, SearchFields DEF Owners
  <2>8. CASE s.owner[i] = NoJob
    BY <2>3, <2>4, <2>8, Zenon DEF AugmentFrom
  <2>9. CASE s.owner[i] # NoJob
    <3> DEFINE moved == f[<<s.owner[i], t>>]
    <3>1. s.owner[i] \in Jobs
      BY <2>7, <2>9
    <3>2. Cardinality(Unseen(t)) < Cardinality(Unseen(s))
      BY <2>5, <2>6, SeenMore
    <3>3. SearchOf(g, idle, s.owner[i], t, moved)
      BY <2>6, <3>1, <3>2 DEF SoundBeyond
    <3>4. moved = h[<<s.owner[i], t>>]
      BY <2>6, <3>1, <3>2 DEF AlikeBeyond
    <3>5. AugmentFrom(f, j, s, i) = IF moved.found THEN Taken(moved, j, i) ELSE f[<<j, moved>>]
      BY <2>9, Zenon DEF AugmentFrom, t
    <3>6. AugmentFrom(h, j, s, i) =
            IF h[<<s.owner[i], t>>].found THEN Taken(h[<<s.owner[i], t>>], j, i) ELSE h[<<j, h[<<s.owner[i], t>>]>>]
      BY <2>9, Zenon DEF AugmentFrom, t
    <3> HIDE DEF moved
    <3>7. moved \in Searches /\ t.seen \subseteq moved.seen
      BY <3>3 DEF SearchOf
    <3>8. Cardinality(Unseen(moved)) < Cardinality(Unseen(s))
      BY <2>5, <2>6, <3>7, SeenMore
    <3>9. f[<<j, moved>>] = h[<<j, moved>>]
      BY <3>7, <3>8 DEF AlikeBeyond
    <3> QED  BY <2>3, <2>4, <3>4, <3>5, <3>6, <3>9
  <2> QED  BY <2>8, <2>9
<1> QED  BY <1>1, <1>2

\* Every search is sound, by induction over how many are not seen.
LEMMA AugmentsSound ==
  ASSUME NEW g \in Games, NEW idle \in SUBSET Identities, NEW f, NEW n \in Nat, AugmentUpTo(f, g, idle, n)
  PROVE  \A j \in Jobs : \A s \in Searches :
           Cardinality(Unseen(s)) < n => SearchOf(g, idle, j, s, f[<<j, s>>])
<1> DEFINE Sound(k) == \A j \in Jobs : \A s \in Searches :
             Cardinality(Unseen(s)) < k /\ k <= n => SearchOf(g, idle, j, s, f[<<j, s>>])
           G == {k \in Nat : Sound(k)}
<1>1. 0 \in G
  <2>1. \A s \in Searches : ~(Cardinality(Unseen(s)) < 0)
    BY UnseenCounted
  <2> QED  BY <2>1
<1>2. ASSUME NEW k \in Nat, k \in G PROVE k + 1 \in G
  <2> SUFFICES ASSUME k + 1 <= n, NEW j \in Jobs, NEW s \in Searches, Cardinality(Unseen(s)) < k + 1
               PROVE  SearchOf(g, idle, j, s, f[<<j, s>>])
    OBVIOUS
  <2>1. Sound(k)
    BY <1>2
  <2> DEFINE u == Cardinality(Unseen(s))
  <2>2. u \in Nat /\ u <= k /\ k <= n /\ u < n
    BY UnseenCounted
  <2>3. SoundBeyond(g, idle, f, s)
    <3> SUFFICES ASSUME NEW h \in Jobs, NEW t \in Searches, Cardinality(Unseen(t)) < u
                 PROVE  SearchOf(g, idle, h, t, f[<<h, t>>])
      BY DEF SoundBeyond
    <3>1. Cardinality(Unseen(t)) \in Nat
      BY UnseenCounted
    <3> HIDE DEF u
    <3>2. Cardinality(Unseen(t)) < k
      BY <2>2, <3>1
    <3> QED  BY <2>1, <2>2, <3>2
  <2>4. SearchOf(g, idle, j, s, AugmentNext(g, idle, f, j, s))
    BY <2>3, AugmentStep
  <2>5. f[<<j, s>>] = AugmentNext(g, idle, f, j, s)
    BY <2>2 DEF AugmentUpTo
  <2> QED  BY <2>4, <2>5
<1>3. Nat \subseteq G
  <2> HIDE DEF G
  <2> QED  BY <1>1, <1>2, AllNaturals
<1>4. Sound(n)
  BY <1>3
<1> QED  BY <1>4

LEMMA AugmentsGrow ==
  ASSUME NEW g \in Games, NEW idle \in SUBSET Identities
  PROVE  \A n \in Nat : \E f : AugmentUpTo(f, g, idle, n)
<1> DEFINE G == {n \in Nat : \E f : AugmentUpTo(f, g, idle, n)}
<1>1. 0 \in G
  <2>1. \A s \in Searches : ~(Cardinality(Unseen(s)) < 0)
    BY UnseenCounted
  <2>2. AugmentUpTo(<<>>, g, idle, 0)
    BY <2>1 DEF AugmentUpTo
  <2> QED  BY <2>2
<1>2. ASSUME NEW n \in Nat, n \in G PROVE n + 1 \in G
  <2>1. PICK f : AugmentUpTo(f, g, idle, n)
    BY <1>2
  <2> DEFINE Step(call) == IF Cardinality(Unseen(call[2])) < n THEN f[call]
                           ELSE AugmentNext(g, idle, f, call[1], call[2])
             h == [call \in Jobs \X Searches |-> Step(call)]
  <2>2. ASSUME NEW j \in Jobs, NEW s \in Searches
        PROVE  h[<<j, s>>] = IF Cardinality(Unseen(s)) < n THEN f[<<j, s>>] ELSE AugmentNext(g, idle, f, j, s)
    <3>1. <<j, s>> \in Jobs \X Searches /\ <<j, s>>[1] = j /\ <<j, s>>[2] = s
      OBVIOUS
    <3>2. h[<<j, s>>] = Step(<<j, s>>)
      <4> HIDE DEF Step
      <4> QED  BY <3>1
    <3> QED  BY <3>1, <3>2, Zenon
  <2> HIDE DEF Step, h
  <2>3. ASSUME NEW j \in Jobs, NEW s \in Searches, Cardinality(Unseen(s)) < n + 1
        PROVE  h[<<j, s>>] = AugmentNext(g, idle, h, j, s)
    <3> DEFINE u == Cardinality(Unseen(s))
    <3>1. u \in Nat /\ u <= n
      BY <2>3, UnseenCounted
    <3>2. \A t \in Searches : Cardinality(Unseen(t)) < u => Cardinality(Unseen(t)) < n
      <4> SUFFICES ASSUME NEW t \in Searches, Cardinality(Unseen(t)) < u PROVE Cardinality(Unseen(t)) < n
        OBVIOUS
      <4>1. Cardinality(Unseen(t)) \in Nat
        BY UnseenCounted
      <4> HIDE DEF u
      <4> QED  BY <3>1, <4>1
    <3>3. \A k \in Jobs : \A t \in Searches :
            Cardinality(Unseen(t)) < n => SearchOf(g, idle, k, t, f[<<k, t>>])
      BY <2>1, AugmentsSound
    <3>4. SoundBeyond(g, idle, f, s)
      BY <3>2, <3>3 DEF SoundBeyond
    <3>5. AlikeBeyond(f, h, s)
      BY <2>2, <3>2 DEF AlikeBeyond
    <3>6. AugmentNext(g, idle, f, j, s) = AugmentNext(g, idle, h, j, s)
      BY <3>4, <3>5, AugmentDepends
    <3>7. Cardinality(Unseen(s)) < n => f[<<j, s>>] = AugmentNext(g, idle, f, j, s)
      BY <2>1 DEF AugmentUpTo
    <3> QED  BY <2>2, <3>6, <3>7
  <2>4. AugmentUpTo(h, g, idle, n + 1)
    BY <2>3 DEF AugmentUpTo
  <2> QED  BY <2>4
<1>3. Nat \subseteq G
  <2> HIDE DEF G
  <2> QED  BY <1>1, <1>2, AllNaturals
<1> QED  BY <1>3

\* The recursion of the search has a solution.
LEMMA AugmentExists ==
  ASSUME NEW g \in Games, NEW idle \in SUBSET Identities
  PROVE  \E f : AugmentIs(f, g, idle)
<1> DEFINE n == Cardinality(Identities) + 1
<1>1. n \in Nat
  BY IdentitiesAssumption, FS_CardinalityType
<1>2. \A s \in Searches : Cardinality(Unseen(s)) < n
  <2> SUFFICES ASSUME NEW s \in Searches PROVE Cardinality(Unseen(s)) < n
    OBVIOUS
  <2>1. Cardinality(Unseen(s)) \in Nat /\ Cardinality(Unseen(s)) <= Cardinality(Identities)
    BY UnseenCounted
  <2>2. Cardinality(Identities) \in Nat
    BY IdentitiesAssumption, FS_CardinalityType
  <2> QED  BY <2>1, <2>2
<1> HIDE DEF n
<1>3. PICK h : AugmentUpTo(h, g, idle, n)
  BY <1>1, AugmentsGrow
<1> DEFINE f == [call \in Jobs \X Searches |-> h[call]]
<1>4. \A j \in Jobs : \A s \in Searches : SearchOf(g, idle, j, s, h[<<j, s>>])
  <2>1. \A j \in Jobs : \A s \in Searches :
          Cardinality(Unseen(s)) < n => SearchOf(g, idle, j, s, h[<<j, s>>])
    BY <1>1, <1>3, AugmentsSound
  <2> QED  BY <1>2, <2>1
<1>5. \A j \in Jobs : \A s \in Searches : f[<<j, s>>] = h[<<j, s>>]
  OBVIOUS
<1> HIDE DEF f
<1>6. ASSUME NEW j \in Jobs, NEW s \in Searches PROVE f[<<j, s>>] = AugmentNext(g, idle, f, j, s)
  <2>1. SoundBeyond(g, idle, h, s)
    BY <1>4 DEF SoundBeyond
  <2>2. AlikeBeyond(h, f, s)
    BY <1>5 DEF AlikeBeyond
  <2>3. AugmentNext(g, idle, h, j, s) = AugmentNext(g, idle, f, j, s)
    BY <2>1, <2>2, AugmentDepends
  <2>4. h[<<j, s>>] = AugmentNext(g, idle, h, j, s)
    BY <1>2, <1>3 DEF AugmentUpTo
  <2> QED  BY <1>5, <2>3, <2>4
<1>7. f = [call \in Jobs \X Searches |-> AugmentNext(g, idle, f, call[1], call[2])]
  <2>1. f = [call \in Jobs \X Searches |-> f[call]]
    BY DEF f
  <2>2. \A call \in Jobs \X Searches : f[call] = AugmentNext(g, idle, f, call[1], call[2])
    <3> SUFFICES ASSUME NEW call \in Jobs \X Searches
                 PROVE  f[call] = AugmentNext(g, idle, f, call[1], call[2])
      OBVIOUS
    <3>1. call = <<call[1], call[2]>> /\ call[1] \in Jobs /\ call[2] \in Searches
      OBVIOUS
    <3>2. f[<<call[1], call[2]>>] = AugmentNext(g, idle, f, call[1], call[2])
      BY <1>6, <3>1
    <3> QED  BY <3>1, <3>2
  <2> DEFINE Step(call) == AugmentNext(g, idle, f, call[1], call[2])
  <2>3. \A call \in Jobs \X Searches : f[call] = Step(call)
    BY <2>2
  <2> HIDE DEF Step
  <2>4. f = [call \in Jobs \X Searches |-> Step(call)]
    BY <2>1, <2>3
  <2> QED  BY <2>4, Zenon DEF Step
<1>8. AugmentIs(f, g, idle)
  BY <1>7, Zenon DEF AugmentIs
<1> QED  BY <1>8

\* _augment: a search of the model is sound.
LEMMA AugmentSound ==
  ASSUME NEW g \in Games, NEW idle \in SUBSET Identities, NEW j \in Jobs, NEW s \in Searches
  PROVE  SearchOf(g, idle, j, s, Augment(g, idle)[<<j, s>>])
<1> DEFINE f == CHOOSE f : f = [call \in Jobs \X Searches |-> AugmentNext(g, idle, f, call[1], call[2])]
<1>1. Augment(g, idle) = f
  BY DEF Augment
<1>2. \A h : AugmentIs(h, g, idle) <=>
               h = [call \in Jobs \X Searches |-> AugmentNext(g, idle, h, call[1], call[2])]
  BY DEF AugmentIs
<1>3. f = [call \in Jobs \X Searches |-> AugmentNext(g, idle, f, call[1], call[2])]
  BY <1>2, AugmentExists
<1> HIDE DEF f
<1>4. ASSUME NEW k \in Jobs, NEW t \in Searches PROVE f[<<k, t>>] = AugmentNext(g, idle, f, k, t)
  <2> DEFINE Step(call) == AugmentNext(g, idle, f, call[1], call[2])
  <2>1. f = [call \in Jobs \X Searches |-> Step(call)]
    BY <1>3, Zenon
  <2> HIDE DEF Step
  <2>2. f[<<k, t>>] = Step(<<k, t>>)
    BY <2>1
  <2>3. <<k, t>>[1] = k /\ <<k, t>>[2] = t
    OBVIOUS
  <2> QED  BY <2>2, <2>3, Zenon DEF Step
<1> DEFINE n == Cardinality(Unseen(s)) + 1
<1>5. n \in Nat /\ Cardinality(Unseen(s)) < n
  BY UnseenCounted
<1> HIDE DEF n
<1>6. AugmentUpTo(f, g, idle, n)
  BY <1>4 DEF AugmentUpTo
<1>7. \A k \in Jobs : \A t \in Searches :
        Cardinality(Unseen(t)) < n => SearchOf(g, idle, k, t, f[<<k, t>>])
  BY <1>5, <1>6, AugmentsSound
<1>8. SearchOf(g, idle, j, s, f[<<j, s>>])
  BY <1>5, <1>7
<1> QED  BY <1>1, <1>8

\* The owners after each slot.
OwnersAfter(f, g, idle, slots, n) ==
  /\ f[0] = [i \in Identities |-> NoJob]
  /\ \A m \in 1..n : f[m] = Augmented(Augment(g, idle), slots[m], f[m - 1])

LEMMA OwnersGrow ==
  ASSUME NEW g, NEW idle, NEW slots
  PROVE  \A n \in Nat : \E f : OwnersAfter(f, g, idle, slots, n)
<1> DEFINE G == {n \in Nat : \E f : OwnersAfter(f, g, idle, slots, n)}
           NextLayer(j, owner) == Augmented(Augment(g, idle), j, owner)
<1>1. 0 \in G
  <2> DEFINE none == [i \in Identities |-> NoJob]
             f == [m \in 0..0 |-> none]
  <2>1. f[0] = none
    <3> HIDE DEF none
    <3> QED  OBVIOUS
  <2>2. OwnersAfter(f, g, idle, slots, 0)
    BY <2>1 DEF OwnersAfter
  <2> QED  BY <2>2
<1>2. ASSUME NEW n \in Nat, n \in G PROVE n + 1 \in G
  <2>1. PICK f : OwnersAfter(f, g, idle, slots, n)
    BY <1>2
  <2>2. f[0] = [i \in Identities |-> NoJob] /\ \A m \in 1..n : f[m] = NextLayer(slots[m], f[m - 1])
    BY <2>1, Zenon DEF OwnersAfter
  <2> DEFINE h == [m \in 0..(n + 1) |-> IF m = n + 1 THEN NextLayer(slots[n + 1], f[n]) ELSE f[m]]
  <2> HIDE DEF NextLayer
  <2>3. \A m \in 0..n : h[m] = f[m]
    OBVIOUS
  <2>4. h[n + 1] = NextLayer(slots[n + 1], f[n])
    OBVIOUS
  <2> HIDE DEF h
  <2>5. 0 \in 0..n /\ \A m \in 1..(n + 1) : m - 1 \in 0..n /\ (m = n + 1 \/ (m \in 1..n /\ m \in 0..n))
    OBVIOUS
  <2>6. \A m \in 1..(n + 1) : h[m] = NextLayer(slots[m], h[m - 1])
    <3> SUFFICES ASSUME NEW m \in 1..(n + 1) PROVE h[m] = NextLayer(slots[m], h[m - 1])
      OBVIOUS
    <3>1. CASE m = n + 1
      <4>1. m - 1 = n /\ n \in 0..n
        BY <3>1
      <4> QED  BY <2>3, <2>4, <3>1, <4>1
    <3>2. CASE m # n + 1
      <4>1. h[m] = f[m] /\ h[m - 1] = f[m - 1] /\ m \in 1..n
        BY <2>3, <2>5, <3>2
      <4> QED  BY <2>2, <4>1
    <3> QED  BY <3>1, <3>2
  <2>7. h[0] = f[0]
    BY <2>3, <2>5
  <2>8. OwnersAfter(h, g, idle, slots, n + 1)
    BY <2>2, <2>6, <2>7, Zenon DEF OwnersAfter, NextLayer
  <2> QED  BY <2>8
<1>3. Nat \subseteq G
  <2> HIDE DEF G
  <2> QED  BY <1>1, <1>2, AllNaturals
<1> QED  BY <1>3

\* slot_matching serves the slots in turn.
LEMMA MatchingBySlots ==
  ASSUME NEW g, NEW idle, NEW slots \in Seq(Jobs)
  PROVE  \E f : SlotMatching(g, idle, slots) = f[Len(slots)] /\ OwnersAfter(f, g, idle, slots, Len(slots))
<1> DEFINE N == Len(slots)
           NextLayer(j, owner) == Augmented(Augment(g, idle), j, owner)
           none == [i \in Identities |-> NoJob]
           Is(f) == f = [n \in 0..N |-> IF n = 0 THEN none ELSE NextLayer(slots[n], f[n - 1])]
           f == CHOOSE f : Is(f)
<1>1. N \in Nat
  OBVIOUS
<1>2. SlotMatching(g, idle, slots) = f[N]
  BY Zenon DEF SlotMatching
<1> HIDE DEF N
<1>3. \E h : Is(h)
  <2>1. PICK k : OwnersAfter(k, g, idle, slots, N)
    BY <1>1, OwnersGrow
  <2>2. k[0] = none /\ \A m \in 1..N : k[m] = NextLayer(slots[m], k[m - 1])
    BY <2>1, Zenon DEF OwnersAfter
  <2> DEFINE h == [n \in 0..N |-> k[n]]
  <2> HIDE DEF NextLayer, none
  <2>3. \A n \in 0..N : h[n] = k[n]
    OBVIOUS
  <2>4. \A n \in 0..N : n # 0 => n - 1 \in 0..N /\ n \in 1..N
    BY <1>1
  <2>5. \A n \in 0..N : k[n] = IF n = 0 THEN none ELSE NextLayer(slots[n], h[n - 1])
    BY <2>2, <2>3, <2>4
  <2>6. h = [n \in 0..N |-> IF n = 0 THEN none ELSE NextLayer(slots[n], h[n - 1])]
    <3>1. h = [n \in 0..N |-> k[n]]
      OBVIOUS
    <3> HIDE DEF h
    <3> QED  BY <2>5, <3>1
  <2> QED  BY <2>6
<1>4. Is(f)
  <2> HIDE DEF Is
  <2> QED  BY <1>3
<1>5. f = [n \in 0..N |-> IF n = 0 THEN none ELSE NextLayer(slots[n], f[n - 1])]
  BY <1>4
<1> HIDE DEF f, NextLayer, none
<1>6. f[0] = none
  BY <1>1, <1>5
<1>7. \A m \in 1..N : f[m] = NextLayer(slots[m], f[m - 1])
  <2>1. \A m \in 1..N : m \in 0..N /\ m # 0
    BY <1>1
  <2> QED  BY <1>5, <2>1
<1>8. OwnersAfter(f, g, idle, slots, N)
  BY <1>6, <1>7, Zenon DEF OwnersAfter, NextLayer, none
<1> QED  BY <1>2, <1>8 DEF N

SlotsUpTo(slots, n, D) == Cardinality({k \in 1..n : slots[k] \in D})
WantedBy(g, idle, J) == {i \in idle : \E j \in J : j \in g.compat[i]}

\* No job owns more than its slots so far.  The slots of all jobs but those of
\* J are served, and those own whomever they want: so nobody more is served.
Within(g, idle, slots, n, owner) ==
  /\ owner \in Owners /\ Proper(g, idle, owner)
  /\ \A D \in SUBSET Jobs : Held(owner, D) <= SlotsUpTo(slots, n, D)
Tight(g, idle, slots, n, owner, J) ==
  /\ J \in SUBSET Jobs
  /\ \A D \in SUBSET (Jobs \ J) : Held(owner, D) = SlotsUpTo(slots, n, D)
  /\ \A i \in WantedBy(g, idle, J) : owner[i] \in J

LEMMA SlotsGrow ==
  ASSUME NEW slots, NEW n \in Nat, NEW D
  PROVE  /\ SlotsUpTo(slots, 0, D) = 0
         /\ SlotsUpTo(slots, n, D) \in Nat
         /\ SlotsUpTo(slots, n + 1, D) = SlotsUpTo(slots, n, D) + OneIf(slots[n + 1], D)
<1> DEFINE old == {k \in 1..n : slots[k] \in D}
           new == {k \in 1..(n + 1) : slots[k] \in D}
<1>1. IsFiniteSet(old) /\ Cardinality(old) \in Nat
  <2>1. IsFiniteSet(1..n)
    BY FS_Interval
  <2>2. old \subseteq 1..n
    OBVIOUS
  <2> HIDE DEF old
  <2> QED  BY <2>1, <2>2, FS_Subset, FS_CardinalityType
<1>2. 1..(n + 1) = (1..n) \cup {n + 1} /\ n + 1 \notin 1..n
  OBVIOUS
<1>3. SlotsUpTo(slots, 0, D) = 0
  <2>1. {k \in 1..0 : slots[k] \in D} = {}
    OBVIOUS
  <2> QED  BY <2>1, FS_EmptySet DEF SlotsUpTo
<1>4. SlotsUpTo(slots, n, D) = Cardinality(old) /\ SlotsUpTo(slots, n + 1, D) = Cardinality(new)
  BY DEF SlotsUpTo
<1>5. CASE slots[n + 1] \in D
  <2>1. new = old \cup {n + 1} /\ n + 1 \notin old
    BY <1>2, <1>5
  <2> HIDE DEF old, new
  <2>2. Cardinality(new) = Cardinality(old) + 1
    BY <1>1, <2>1, FS_AddElement
  <2> QED  BY <1>1, <1>3, <1>4, <1>5, <2>2 DEF OneIf
<1>6. CASE slots[n + 1] \notin D
  <2>1. new = old
    BY <1>2, <1>6
  <2> HIDE DEF old, new
  <2> QED  BY <1>1, <1>3, <1>4, <1>6, <2>1 DEF OneIf
<1> QED  BY <1>5, <1>6

\* Who a set of jobs owns is wanted by them.
LEMMA HeldWanted ==
  ASSUME NEW g \in Games, NEW idle \in SUBSET Identities, NEW owner \in Owners,
         Proper(g, idle, owner), NEW J \in SUBSET Jobs
  PROVE  /\ {i \in Identities : owner[i] \in J} \subseteq WantedBy(g, idle, J)
         /\ IsFiniteSet(WantedBy(g, idle, J)) /\ Cardinality(WantedBy(g, idle, J)) \in Nat
         /\ Held(owner, J) \in Nat /\ Held(owner, J) <= Cardinality(WantedBy(g, idle, J))
         /\ Held(owner, J) = Cardinality(WantedBy(g, idle, J)) =>
              \A i \in WantedBy(g, idle, J) : owner[i] \in J
         /\ (\A i \in WantedBy(g, idle, J) : owner[i] \in J) =>
              Held(owner, J) = Cardinality(WantedBy(g, idle, J))
<1> DEFINE W == WantedBy(g, idle, J)
           H == {i \in Identities : owner[i] \in J}
<1>1. H \subseteq W
  <2>1. \A i \in H : owner[i] # NoJob
    BY NobodyIsJob
  <2> QED  BY <2>1 DEF Proper, WantedBy
<1>2. W \subseteq Identities
  BY DEF WantedBy
<1>3. (\A i \in W : owner[i] \in J) <=> W \subseteq H
  BY <1>2
<1>4. Held(owner, J) = Cardinality(H)
  BY DEF Held
<1> HIDE DEF W, H
<1>5. IsFiniteSet(W) /\ Cardinality(W) \in Nat
  BY <1>2, IdentitiesAssumption, FS_Subset, FS_CardinalityType
<1>6. /\ IsFiniteSet(H) /\ Cardinality(H) <= Cardinality(W)
      /\ Cardinality(H) = Cardinality(W) => H = W
  BY <1>1, <1>5, FS_Subset
<1>7. Cardinality(H) \in Nat
  BY <1>6, FS_CardinalityType
<1> QED  BY <1>1, <1>3, <1>4, <1>5, <1>6, <1>7 DEF W, H

\* OneIf slot more: either it is served and the same jobs are tight, or it is
\* not, and with all that its search has seen the jobs of a larger set are.
LEMMA SlotServed ==
  ASSUME NEW g \in Games, NEW idle \in SUBSET Identities, NEW slots, NEW n \in Nat,
         NEW owner, NEW J, Within(g, idle, slots, n, owner), Tight(g, idle, slots, n, owner, J),
         slots[n + 1] \in Jobs, NEW end, end.found,
         SearchOf(g, idle, slots[n + 1], [owner |-> owner, seen |-> {}, found |-> FALSE], end)
  PROVE  Within(g, idle, slots, n + 1, end.owner) /\ Tight(g, idle, slots, n + 1, end.owner, J)
<1> DEFINE j == slots[n + 1]
           s == [owner |-> owner, seen |-> {}, found |-> FALSE]
           after == end.owner
<1>1. s.owner = owner
  OBVIOUS
<1>2. end \in Searches /\ FoundFor(g, idle, j, s, end)
  BY DEF SearchOf
<1>3. owner \in Owners /\ Proper(g, idle, owner) /\ J \in SUBSET Jobs /\ after \in Owners
  BY <1>2, SearchFields DEF Within, Tight
<1> HIDE DEF s
<1>4. Proper(g, idle, after) /\ \A D \in SUBSET Jobs : Held(after, D) = Held(owner, D) + OneIf(j, D)
  BY <1>1, <1>2, <1>3 DEF FoundFor
<1> HIDE DEF after
<1>5. \A D \in SUBSET Jobs : Held(owner, D) \in Nat /\ OneIf(j, D) \in Nat
  BY <1>3, HeldWanted DEF OneIf
<1>6. \A D : SlotsUpTo(slots, n, D) \in Nat /\ SlotsUpTo(slots, n + 1, D) = SlotsUpTo(slots, n, D) + OneIf(j, D)
  BY SlotsGrow
<1>7. \A D \in SUBSET Jobs : Held(after, D) <= SlotsUpTo(slots, n + 1, D)
  <2> SUFFICES ASSUME NEW D \in SUBSET Jobs PROVE Held(after, D) <= SlotsUpTo(slots, n + 1, D)
    OBVIOUS
  <2>1. Held(owner, D) <= SlotsUpTo(slots, n, D)
    BY DEF Within
  <2> QED  BY <1>4, <1>5, <1>6, <2>1
<1>8. Held(owner, J) = Cardinality(WantedBy(g, idle, J))
  BY <1>3, HeldWanted DEF Tight
<1>9. /\ Held(after, J) <= Cardinality(WantedBy(g, idle, J))
      /\ Held(after, J) = Cardinality(WantedBy(g, idle, J)) => \A i \in WantedBy(g, idle, J) : after[i] \in J
  BY <1>3, <1>4, HeldWanted
<1>10. j \notin J
  <2>1. Held(after, J) = Held(owner, J) + OneIf(j, J) /\ Held(owner, J) \in Nat
    BY <1>3, <1>4, <1>5
  <2>2. OneIf(j, J) = 0
    <3>1. OneIf(j, J) \in {0, 1}
      BY DEF OneIf
    <3> HIDE DEF j
    <3> QED  BY <1>8, <1>9, <2>1, <3>1
  <2> QED  BY <2>2 DEF OneIf
<1>11. \A i \in WantedBy(g, idle, J) : after[i] \in J
  <2>1. Held(after, J) = Held(owner, J) + OneIf(j, J) /\ Held(owner, J) \in Nat /\ OneIf(j, J) = 0
    BY <1>3, <1>4, <1>5, <1>10 DEF OneIf
  <2> QED  BY <1>8, <1>9, <2>1
<1>12. \A D \in SUBSET (Jobs \ J) : Held(after, D) = SlotsUpTo(slots, n + 1, D)
  <2> SUFFICES ASSUME NEW D \in SUBSET (Jobs \ J) PROVE Held(after, D) = SlotsUpTo(slots, n + 1, D)
    OBVIOUS
  <2>1. Held(owner, D) = SlotsUpTo(slots, n, D)
    BY DEF Tight
  <2>2. D \in SUBSET Jobs
    OBVIOUS
  <2> QED  BY <1>4, <1>6, <2>1, <2>2
<1>13. Within(g, idle, slots, n + 1, after)
  BY <1>3, <1>4, <1>7 DEF Within
<1>14. Tight(g, idle, slots, n + 1, after, J)
  BY <1>3, <1>11, <1>12 DEF Tight
<1> QED  BY <1>13, <1>14 DEF after

LEMMA SlotUnserved ==
  ASSUME NEW g \in Games, NEW idle \in SUBSET Identities, NEW slots, NEW n \in Nat,
         NEW owner, NEW J, Within(g, idle, slots, n, owner), Tight(g, idle, slots, n, owner, J),
         slots[n + 1] \in Jobs, NEW end, ~end.found,
         SearchOf(g, idle, slots[n + 1], [owner |-> owner, seen |-> {}, found |-> FALSE], end)
  PROVE  /\ Within(g, idle, slots, n + 1, end.owner)
         /\ \E K : Tight(g, idle, slots, n + 1, end.owner, K)
<1> DEFINE j == slots[n + 1]
           s == [owner |-> owner, seen |-> {}, found |-> FALSE]
           K == J \cup {j} \cup {owner[i] : i \in end.seen}
<1>1. s.owner = owner /\ s.seen = {}
  OBVIOUS
<1>2. end \in Searches /\ ClosedFor(g, idle, j, s, end)
  BY DEF SearchOf
<1> HIDE DEF s
<1>3. /\ end.owner = owner /\ Wanted(g, idle, j) \subseteq end.seen
      /\ \A i \in end.seen : owner[i] \in Jobs /\ Wanted(g, idle, owner[i]) \subseteq end.seen
  BY <1>1, <1>2 DEF ClosedFor
<1>4. owner \in Owners /\ Proper(g, idle, owner) /\ J \in SUBSET Jobs
  BY DEF Within, Tight
<1>5. K \in SUBSET Jobs
  BY <1>3, <1>4
<1>6. \A D \in SUBSET Jobs : Held(owner, D) \in Nat /\ OneIf(j, D) \in Nat
  BY <1>4, HeldWanted DEF OneIf
<1>7. \A D : SlotsUpTo(slots, n, D) \in Nat /\ SlotsUpTo(slots, n + 1, D) = SlotsUpTo(slots, n, D) + OneIf(j, D)
  BY SlotsGrow
<1>8. \A D \in SUBSET Jobs : Held(owner, D) <= SlotsUpTo(slots, n + 1, D)
  <2> SUFFICES ASSUME NEW D \in SUBSET Jobs PROVE Held(owner, D) <= SlotsUpTo(slots, n + 1, D)
    OBVIOUS
  <2>1. Held(owner, D) <= SlotsUpTo(slots, n, D)
    BY DEF Within
  <2> QED  BY <1>6, <1>7, <2>1
<1>9. \A D \in SUBSET (Jobs \ K) : Held(owner, D) = SlotsUpTo(slots, n + 1, D)
  <2> SUFFICES ASSUME NEW D \in SUBSET (Jobs \ K) PROVE Held(owner, D) = SlotsUpTo(slots, n + 1, D)
    OBVIOUS
  <2>1. D \in SUBSET (Jobs \ J) /\ j \notin D
    OBVIOUS
  <2>2. Held(owner, D) = SlotsUpTo(slots, n, D) /\ OneIf(j, D) = 0
    BY <2>1 DEF Tight, OneIf
  <2> QED  BY <1>7, <2>2
<1>10. ASSUME NEW i \in WantedBy(g, idle, K) PROVE owner[i] \in K
  <2>1. PICK k \in K : i \in Wanted(g, idle, k)
    BY DEF WantedBy, Wanted
  <2>2. CASE k \in J
    <3>1. i \in WantedBy(g, idle, J)
      BY <2>1, <2>2 DEF WantedBy, Wanted
    <3> QED  BY <3>1 DEF Tight
  <2>3. CASE k \notin J
    <3>1. i \in end.seen
      BY <1>3, <2>1, <2>3
    <3> QED  BY <3>1
  <2> QED  BY <2>2, <2>3
<1> HIDE DEF K
<1>11. Within(g, idle, slots, n + 1, owner)
  BY <1>4, <1>8 DEF Within
<1>12. Tight(g, idle, slots, n + 1, owner, K)
  BY <1>5, <1>9, <1>10 DEF Tight
<1> QED  BY <1>3, <1>11, <1>12

\* slot_matching finds, for any slots, a matching that no search can enlarge.
LEMMA MatchingTight ==
  ASSUME NEW g \in Games, NEW idle \in SUBSET Identities, NEW slots \in Seq(Jobs)
  PROVE  /\ Within(g, idle, slots, Len(slots), SlotMatching(g, idle, slots))
         /\ \E J : Tight(g, idle, slots, Len(slots), SlotMatching(g, idle, slots), J)
<1> DEFINE N == Len(slots)
           Good(n, owner) == /\ Within(g, idle, slots, n, owner)
                             /\ \E J : Tight(g, idle, slots, n, owner, J)
<1>1. N \in Nat /\ \A n \in 1..N : slots[n] \in Jobs
  OBVIOUS
<1>2. PICK f : SlotMatching(g, idle, slots) = f[N] /\ OwnersAfter(f, g, idle, slots, N)
  BY MatchingBySlots
<1> HIDE DEF N
<1>3. Good(0, f[0])
  <2>1. f[0] = [i \in Identities |-> NoJob]
    BY <1>2 DEF OwnersAfter
  <2>2. f[0] \in Owners /\ Proper(g, idle, f[0])
    BY <2>1 DEF Owners, Proper
  <2>3. ASSUME NEW D \in SUBSET Jobs PROVE Held(f[0], D) = 0 /\ SlotsUpTo(slots, 0, D) = 0
    <3>1. {i \in Identities : f[0][i] \in D} = {}
      BY <2>1, NobodyIsJob
    <3>2. Held(f[0], D) = 0
      BY <3>1, FS_EmptySet DEF Held
    <3> QED  BY <3>2, SlotsGrow
  <2>4. Within(g, idle, slots, 0, f[0])
    BY <2>2, <2>3 DEF Within
  <2>5. Tight(g, idle, slots, 0, f[0], {})
    BY <2>3 DEF Tight, WantedBy
  <2> QED  BY <2>4, <2>5
<1>4. ASSUME NEW n \in Nat, n + 1 <= N, Good(n, f[n]) PROVE Good(n + 1, f[n + 1])
  <2> DEFINE s == [owner |-> f[n], seen |-> {}, found |-> FALSE]
             j == slots[n + 1]
             end == Augment(g, idle)[<<j, s>>]
  <2>1. n + 1 \in 1..N /\ (n + 1) - 1 = n
    BY <1>1, <1>4
  <2>2. f[n + 1] = Augmented(Augment(g, idle), slots[n + 1], f[n])
    BY <1>2, <2>1 DEF OwnersAfter
  <2>3. f[n + 1] = end.owner
    BY <2>2 DEF Augmented
  <2>4. j \in Jobs /\ f[n] \in Owners
    BY <1>1, <1>4, <2>1 DEF Within
  <2>5. s \in Searches
    BY <2>4 DEF Searches, Owners
  <2>6. SearchOf(g, idle, j, s, end)
    <3> HIDE DEF s, j
    <3> QED  BY <2>4, <2>5, AugmentSound
  <2> HIDE DEF end
  <2>7. Within(g, idle, slots, n, f[n])
    BY <1>4
  <2>8. PICK J : Tight(g, idle, slots, n, f[n], J)
    BY <1>4
  <2>9. CASE end.found
    <3>1. Within(g, idle, slots, n + 1, end.owner) /\ Tight(g, idle, slots, n + 1, end.owner, J)
      BY <2>4, <2>6, <2>7, <2>8, <2>9, SlotServed
    <3> QED  BY <2>3, <3>1
  <2>10. CASE ~end.found
    <3>1. /\ Within(g, idle, slots, n + 1, end.owner)
          /\ \E K : Tight(g, idle, slots, n + 1, end.owner, K)
      BY <2>4, <2>6, <2>7, <2>8, <2>10, SlotUnserved
    <3> QED  BY <2>3, <3>1
  <2> QED  BY <2>9, <2>10
<1> DEFINE G == {n \in Nat : n <= N => Good(n, f[n])}
<1>5. Nat \subseteq G
  <2>1. 0 \in G
    BY <1>3
  <2>2. ASSUME NEW n \in Nat, n \in G PROVE n + 1 \in G
    <3> SUFFICES ASSUME n + 1 <= N PROVE Good(n + 1, f[n + 1])
      OBVIOUS
    <3>1. n <= N
      BY <1>1
    <3>2. Good(n, f[n])
      BY <2>2, <3>1
    <3> HIDE DEF Good
    <3> QED  BY <1>4, <3>2
  <2> HIDE DEF G
  <2> QED  BY <2>1, <2>2, AllNaturals
<1>6. Good(N, f[N])
  BY <1>1, <1>5
<1> QED  BY <1>2, <1>6 DEF N

\* A matching cannot serve more than the slots of some jobs and those whom the
\* others want, and a tight one serves as many.
LEMMA TightIsMaximum ==
  ASSUME NEW g \in Games, NEW idle \in SUBSET Identities, NEW slots, NEW n \in Nat, NEW owner,
         Within(g, idle, slots, n, owner), NEW J, Tight(g, idle, slots, n, owner, J)
  PROVE  Cardinality(Owned(owner)) =
           Least({SlotsUpTo(slots, n, Jobs \ K) + Cardinality(WantedBy(g, idle, K)) : K \in SUBSET Jobs})
<1> DEFINE bound == [K \in SUBSET Jobs |->
                       SlotsUpTo(slots, n, Jobs \ K) + Cardinality(WantedBy(g, idle, K))]
           size == Cardinality(Owned(owner))
           B == {bound[K] : K \in SUBSET Jobs}
<1>1. owner \in Owners /\ Proper(g, idle, owner) /\ J \in SUBSET Jobs
  BY DEF Within, Tight
<1>2. ASSUME NEW K \in SUBSET Jobs PROVE size = Held(owner, Jobs \ K) + Held(owner, K)
  <2> DEFINE served == {i \in Identities : owner[i] \in Jobs \ K}
             rest == {i \in Identities : owner[i] \in K}
  <2>1. Owned(owner) = served \cup rest
    BY <1>1, NobodyIsJob DEF Owned, Owners
  <2>2. served \cap rest = {} /\ served \subseteq Identities /\ rest \subseteq Identities
    OBVIOUS
  <2>3. Held(owner, Jobs \ K) = Cardinality(served) /\ Held(owner, K) = Cardinality(rest)
    BY DEF Held
  <2> HIDE DEF served, rest
  <2>4. IsFiniteSet(served) /\ IsFiniteSet(rest)
    BY <2>2, IdentitiesAssumption, FS_Subset
  <2>5. Cardinality(served \cup rest) = Cardinality(served) + Cardinality(rest)
    <3>1. Cardinality(served \cup rest) = Cardinality(served) + Cardinality(rest) - Cardinality(served \cap rest)
      BY <2>4, FS_Union
    <3>2. Cardinality(served \cap rest) = 0
      BY <2>2, FS_EmptySet
    <3>3. Cardinality(served) \in Nat /\ Cardinality(rest) \in Nat
      BY <2>4, FS_CardinalityType
    <3> QED  BY <3>1, <3>2, <3>3
  <2> QED  BY <2>1, <2>3, <2>5
<1>3. ASSUME NEW K \in SUBSET Jobs
      PROVE  /\ bound[K] = SlotsUpTo(slots, n, Jobs \ K) + Cardinality(WantedBy(g, idle, K))
             /\ SlotsUpTo(slots, n, Jobs \ K) \in Nat /\ Cardinality(WantedBy(g, idle, K)) \in Nat
             /\ Held(owner, Jobs \ K) \in Nat /\ Held(owner, K) \in Nat
             /\ Held(owner, Jobs \ K) <= SlotsUpTo(slots, n, Jobs \ K)
             /\ Held(owner, K) <= Cardinality(WantedBy(g, idle, K))
  <2>1. SlotsUpTo(slots, n, Jobs \ K) \in Nat
    BY SlotsGrow
  <2>2. /\ Cardinality(WantedBy(g, idle, K)) \in Nat /\ Held(owner, K) \in Nat
        /\ Held(owner, K) <= Cardinality(WantedBy(g, idle, K))
    BY <1>1, HeldWanted
  <2>3. Jobs \ K \in SUBSET Jobs
    OBVIOUS
  <2>4. Held(owner, Jobs \ K) \in Nat
    BY <1>1, <2>3, HeldWanted
  <2>5. Held(owner, Jobs \ K) <= SlotsUpTo(slots, n, Jobs \ K)
    BY <2>3 DEF Within
  <2> QED  BY <2>1, <2>2, <2>4, <2>5
<1> HIDE DEF bound, size
<1>4. \A K \in SUBSET Jobs : bound[K] \in Nat /\ size <= bound[K]
  <2> SUFFICES ASSUME NEW K \in SUBSET Jobs PROVE bound[K] \in Nat /\ size <= bound[K]
    OBVIOUS
  <2>1. size = Held(owner, Jobs \ K) + Held(owner, K)
    BY <1>2
  <2>2. /\ bound[K] = SlotsUpTo(slots, n, Jobs \ K) + Cardinality(WantedBy(g, idle, K))
        /\ SlotsUpTo(slots, n, Jobs \ K) \in Nat /\ Cardinality(WantedBy(g, idle, K)) \in Nat
        /\ Held(owner, Jobs \ K) \in Nat /\ Held(owner, K) \in Nat
        /\ Held(owner, Jobs \ K) <= SlotsUpTo(slots, n, Jobs \ K)
        /\ Held(owner, K) <= Cardinality(WantedBy(g, idle, K))
    BY <1>3
  <2> QED  BY <2>1, <2>2
<1>5. bound[J] = size
  <2>1. Held(owner, Jobs \ J) = SlotsUpTo(slots, n, Jobs \ J)
    BY DEF Tight
  <2>2. Held(owner, J) = Cardinality(WantedBy(g, idle, J))
    BY <1>1, HeldWanted DEF Tight
  <2>3. size = Held(owner, Jobs \ J) + Held(owner, J)
    BY <1>1, <1>2
  <2> QED  BY <1>1, <1>3, <2>1, <2>2, <2>3
<1>6. size \in B /\ \A v \in B : size <= v
  BY <1>1, <1>4, <1>5
<1>7. \A v \in B : v \in Nat
  BY <1>4
<1>8. B = {SlotsUpTo(slots, n, Jobs \ K) + Cardinality(WantedBy(g, idle, K)) : K \in SUBSET Jobs}
  BY <1>3
<1> HIDE DEF B
<1>9. Least(B) = size
  <2>1. \A v \in B : (\A w \in B : v <= w) => v = size
    <3> SUFFICES ASSUME NEW v \in B, \A w \in B : v <= w PROVE v = size
      OBVIOUS
    <3>1. v <= size /\ size <= v /\ v \in Nat /\ size \in Nat
      BY <1>6, <1>7
    <3> QED  BY <3>1
  <2> QED  BY <1>6, <2>1 DEF Least
<1> QED  BY <1>8, <1>9 DEF size

-------------------------------------------------------------------------------
(* Slots                                                                   *)

Keys(key) == key \in [Jobs -> Int] /\ \A j, h \in Jobs : key[j] = key[h] => j = h

LEMMA FirstAndLast ==
  ASSUME NEW S \in SUBSET Jobs, S # {}, NEW key \in [Jobs -> Int]
  PROVE  /\ \E j \in S : \A h \in S : key[j] <= key[h]
         /\ \E j \in S : \A h \in S : key[h] <= key[j]
<1> DEFINE T == {key[j] : j \in S}
<1>1. IsFiniteSet(S)
  BY JobsAssumption, FS_Subset
<1>2. IsFiniteSet(T)
  BY <1>1, GivesFinitely
<1>3. T \subseteq Int /\ T # {}
  OBVIOUS
<1>4. \A h \in S : key[h] \in T
  OBVIOUS
<1>5. \A t \in T : \E j \in S : t = key[j]
  OBVIOUS
<1> HIDE DEF T
<1>6. Least(T) \in T /\ \A t \in T : Least(T) <= t
  BY <1>2, <1>3, LeastIs
<1>7. Greatest(T) \in T /\ \A t \in T : t <= Greatest(T)
  BY <1>2, <1>3, GreatestIs
<1>8. PICK j \in S : Least(T) = key[j]
  BY <1>5, <1>6
<1>9. PICK h \in S : Greatest(T) = key[h]
  BY <1>5, <1>7
<1>10. \A k \in S : key[j] <= key[k] /\ key[k] <= key[h]
  BY <1>4, <1>6, <1>7, <1>8, <1>9
<1> QED  BY <1>10

LEMMA PlacesOfOne ==
  ASSUME NEW j, NEW c \in Nat
  PROVE  IsFiniteSet({j} \X (1..c)) /\ Cardinality({j} \X (1..c)) = c
<1>1. IsFiniteSet({j}) /\ Cardinality({j}) = 1
  BY FS_Singleton
<1>2. IsFiniteSet(1..c) /\ Cardinality(1..c) = c
  BY FS_Interval
<1>3. IsFiniteSet({j} \X (1..c)) /\ Cardinality({j} \X (1..c)) = Cardinality({j}) * Cardinality(1..c)
  BY <1>1, <1>2, FS_Product
<1> QED  BY <1>1, <1>2, <1>3

PlacesBefore(J, count, key, j) == {p \in Places(J, count) : key[p[1]] < key[j]}
PlacesThrough(J, count, key, j) == {p \in Places(J, count) : key[p[1]] <= key[j]}

LEMMA PlacesFinite ==
  ASSUME NEW J \in SUBSET Jobs, NEW count, \A j \in J : count[j] \in Nat
  PROVE  IsFiniteSet(Places(J, count)) /\ \A p \in Places(J, count) : p[1] \in J
<1> DEFINE f == [j \in J |-> {j} \X (1..count[j])]
           U == {f[j] : j \in J}
<1>1. IsFiniteSet(J)
  BY JobsAssumption, FS_Subset
<1>2. \A j \in J : f[j] = {j} \X (1..count[j])
  OBVIOUS
<1>3. Places(J, count) = UNION U
  BY DEF Places
<1> HIDE DEF f
<1>4. /\ IsFiniteSet(U)
      /\ \A T \in U : IsFiniteSet(T)
  <2>1. IsFiniteSet({f[j] : j \in J})
    BY <1>1, GivesFinitely
  <2>2. ASSUME NEW j \in J PROVE IsFiniteSet(f[j])
    <3>1. count[j] \in Nat
      OBVIOUS
    <3>2. IsFiniteSet({j} \X (1..count[j]))
      BY <3>1, PlacesOfOne
    <3> QED  BY <1>2, <3>2
  <2> QED  BY <2>1, <2>2
<1> HIDE DEF U
<1>5. IsFiniteSet(UNION U)
  BY <1>4, FS_UNION
<1>6. \A p \in Places(J, count) : p[1] \in J
  BY DEF Places
<1> QED  BY <1>3, <1>5, <1>6

\* The places of a job follow those before it.
LEMMA PlacesFollow ==
  ASSUME NEW J \in SUBSET Jobs, NEW count, \A j \in J : count[j] \in Nat,
         NEW key, Keys(key), NEW j \in J
  PROVE  /\ Cardinality(PlacesBefore(J, count, key, j)) \in Nat
         /\ Cardinality(PlacesThrough(J, count, key, j)) =
              Cardinality(PlacesBefore(J, count, key, j)) + count[j]
<1> DEFINE P == Places(J, count)
           B == PlacesBefore(J, count, key, j)
           T == PlacesThrough(J, count, key, j)
           own == {j} \X (1..count[j])
<1>1. IsFiniteSet(P) /\ \A p \in P : p[1] \in J
  BY PlacesFinite
<1>2. \A p \in P : p[1] = j <=> p \in own
  BY DEF Places
<1>3. own \subseteq P
  BY DEF Places
<1>4. key \in [Jobs -> Int] /\ \A h \in J : key[h] = key[j] => h = j
  BY DEF Keys
<1>5. \A p \in P : key[p[1]] \in Int /\ key[j] \in Int
  BY <1>1, <1>4
<1>6. \A p \in own : p[1] = j
  OBVIOUS
<1>7. B = {p \in P : key[p[1]] < key[j]} /\ T = {p \in P : key[p[1]] <= key[j]}
  BY DEF PlacesBefore, PlacesThrough
<1> HIDE DEF P, B, T, own
<1>8. T = B \cup own
  <2>1. \A p \in T : p \in B \cup own
    BY <1>1, <1>2, <1>4, <1>5, <1>7
  <2>2. \A p \in B : p \in T
    BY <1>5, <1>7
  <2>3. \A p \in own : p \in T
    BY <1>3, <1>5, <1>6, <1>7
  <2> QED  BY <2>1, <2>2, <2>3
<1>9. B \cap own = {}
  BY <1>3, <1>5, <1>6, <1>7
<1>10. IsFiniteSet(B) /\ B \subseteq P
  BY <1>1, <1>7, FS_Subset
<1>11. IsFiniteSet(own) /\ Cardinality(own) = count[j]
  <2>1. count[j] \in Nat
    OBVIOUS
  <2> QED  BY <2>1, PlacesOfOne DEF own
<1>12. Cardinality(B \cup own) = Cardinality(B) + Cardinality(own) - Cardinality(B \cap own)
  BY <1>10, <1>11, FS_Union
<1>13. Cardinality(B \cap own) = 0 /\ Cardinality(B) \in Nat /\ count[j] \in Nat
  BY <1>9, <1>10, FS_EmptySet, FS_CardinalityType
<1> QED  BY <1>8, <1>11, <1>12, <1>13 DEF B, T

\* Every number up to the places there are is that of a place of some job.
LEMMA PlaceTaken ==
  ASSUME NEW J \in SUBSET Jobs, NEW count, \A j \in J : count[j] \in Nat,
         NEW key, Keys(key),
         NEW n \in 1..Cardinality(Places(J, count))
  PROVE  \E j \in J : n - Cardinality(PlacesBefore(J, count, key, j)) \in 1..count[j]
<1> DEFINE P == Places(J, count)
           before == [j \in J |-> Cardinality(PlacesBefore(J, count, key, j))]
           S == {j \in J : n <= before[j] + count[j]}
<1>1. IsFiniteSet(P) /\ Cardinality(P) \in Nat /\ \A p \in P : p[1] \in J
  BY PlacesFinite, FS_CardinalityType
<1>2. key \in [Jobs -> Int]
  BY DEF Keys
<1>3. \A j \in J : before[j] \in Nat /\ before[j] = Cardinality(PlacesBefore(J, count, key, j))
                  /\ before[j] + count[j] = Cardinality(PlacesThrough(J, count, key, j))
  BY PlacesFollow
<1> HIDE DEF before
<1>4. S # {}
  <2>1. P # {}
    BY <1>1, FS_EmptySet
  <2>2. J # {}
    BY <1>1, <2>1
  <2>3. PICK j \in J : \A h \in J : key[h] <= key[j]
    BY <1>2, <2>2, FirstAndLast
  <2>4. PlacesThrough(J, count, key, j) = P
    BY <1>1, <2>3 DEF PlacesThrough
  <2>5. n <= before[j] + count[j]
    BY <1>3, <2>4
  <2> QED  BY <2>5
<1>5. S \in SUBSET Jobs
  OBVIOUS
<1>6. PICK j \in S : \A h \in S : key[j] <= key[h]
  <2> HIDE DEF S
  <2> QED  BY <1>2, <1>4, <1>5, FirstAndLast
<1>7. before[j] < n
  <2> SUFFICES ASSUME ~(before[j] < n) PROVE FALSE
    OBVIOUS
  <2> DEFINE B == PlacesBefore(J, count, key, j)
             H == {h \in J : key[h] < key[j]}
  <2>1. Cardinality(B) >= n /\ Cardinality(B) # 0
    BY <1>1, <1>3
  <2>2. B # {}
    BY <2>1, FS_EmptySet
  <2>3. H # {} /\ H \in SUBSET Jobs
    BY <1>1, <2>2 DEF PlacesBefore
  <2>4. PICK h \in H : \A k \in H : key[k] <= key[h]
    <3> HIDE DEF H
    <3> QED  BY <1>2, <2>3, FirstAndLast
  <2>5. B = PlacesThrough(J, count, key, h)
    <3>1. \A k \in J : key[k] < key[j] <=> key[k] <= key[h]
      BY <1>2, <2>4
    <3> QED  BY <1>1, <3>1 DEF PlacesBefore, PlacesThrough
  <2>6. n <= before[h] + count[h]
    BY <1>1, <1>3, <2>1, <2>5
  <2>7. h \in S /\ key[h] < key[j] /\ key[h] \in Int /\ key[j] \in Int
    BY <1>2, <2>6
  <2> QED  BY <1>6, <2>7
<1>8. n - before[j] \in 1..count[j]
  <2>1. before[j] \in Nat /\ count[j] \in Nat /\ n \in Nat /\ n <= before[j] + count[j]
    BY <1>1, <1>3
  <2> QED  BY <1>7, <2>1
<1> QED  BY <1>3, <1>8

\* A list of slots names jobs, each as often as it counts at most.
LEMMA SlotListIs ==
  ASSUME NEW J \in SUBSET Jobs, NEW count, \A j \in J : count[j] \in Nat,
         NEW key, Keys(key)
  PROVE  /\ SlotList(J, count, key) \in Seq(Jobs)
         /\ Len(SlotList(J, count, key)) = Cardinality(Places(J, count))
         /\ \A n \in 1..Len(SlotList(J, count, key)) : SlotList(J, count, key)[n] \in J
         /\ \A j \in J : SlotsUpTo(SlotList(J, count, key), Len(SlotList(J, count, key)), {j}) <= count[j]
<1> DEFINE N == Cardinality(Places(J, count))
           list == SlotList(J, count, key)
           before == [j \in J |-> Cardinality(PlacesBefore(J, count, key, j))]
           Of(n) == CHOOSE j \in J : n - before[j] \in 1..count[j]
<1>1. N \in Nat
  BY PlacesFinite, FS_CardinalityType
<1>2. list = [n \in 1..N |-> Of(n)]
  BY Zenon DEF SlotList, PlacesBefore
<1> HIDE DEF N, list
<1>3. \A j \in J : before[j] = Cardinality(PlacesBefore(J, count, key, j)) /\ before[j] \in Nat
  BY PlacesFollow
<1>4. ASSUME NEW n \in 1..N PROVE Of(n) \in J /\ n - before[Of(n)] \in 1..count[Of(n)]
  <2>1. \E j \in J : n - Cardinality(PlacesBefore(J, count, key, j)) \in 1..count[j]
    BY PlaceTaken DEF N
  <2>2. \E j \in J : n - before[j] \in 1..count[j]
    BY <1>3, <2>1
  <2> HIDE DEF before
  <2> QED  BY <2>2
<1> HIDE DEF before, Of
<1>5. list \in Seq(Jobs) /\ Len(list) = N /\ \A n \in 1..N : list[n] = Of(n) /\ list[n] \in J
  BY <1>1, <1>2, <1>4
<1>6. ASSUME NEW j \in J PROVE SlotsUpTo(list, N, {j}) <= count[j]
  <2> DEFINE K == {k \in 1..N : list[k] \in {j}}
             a == before[j] + 1
             b == before[j] + count[j]
  <2>1. count[j] \in Nat /\ before[j] \in Nat /\ a \in Int /\ b \in Int
    BY <1>3
  <2>2. K \subseteq a..b
    <3> SUFFICES ASSUME NEW k \in 1..N, list[k] = j PROVE k \in a..b
      OBVIOUS
    <3>1. k - before[j] \in 1..count[j]
      BY <1>4, <1>5
    <3> QED  BY <2>1, <3>1
  <2>3. IsFiniteSet(a..b) /\ Cardinality(a..b) = IF a > b THEN 0 ELSE b - a + 1
    <3> HIDE DEF a, b
    <3> QED  BY <2>1, FS_Interval
  <2>4. Cardinality(a..b) = count[j]
    BY <2>1, <2>3
  <2>5. Cardinality(K) <= Cardinality(a..b)
    <3> HIDE DEF K, a, b
    <3> QED  BY <2>2, <2>3, FS_Subset
  <2> QED  BY <2>4, <2>5 DEF SlotsUpTo
<1> QED  BY <1>5, <1>6 DEF list, N

-------------------------------------------------------------------------------
(* The wave matching                                                       *)

\* The keys of both lists of slots tell jobs apart.
LEMMA SlotKeys ==
  ASSUME ExactAssumption, PlayTyped
  PROVE  /\ Keys(InTurn) /\ Keys(NeedierFirst)
         /\ Deficits \in [Jobs -> Int] /\ \A j \in Unresolved : Deficits[j] \in Nat
<1>1. Jobs \subseteq Nat
  BY JobsAssumption
<1>2. game.need \in [Jobs -> Nat \ {0}] /\ passes \in [Jobs -> Nat]
  BY GameFacts, CountFacts DEF PlayTyped
<1>3. \A j \in Jobs : Deficit(j) \in Int
  BY <1>2 DEF Deficit
<1>4. Deficits \in [Jobs -> Int] /\ \A j \in Unresolved : Deficits[j] \in Nat
  <2>1. \A j \in Jobs : Deficits[j] = Deficit(j)
    BY DEF Deficits
  <2>2. \A j \in Unresolved : j \in Jobs /\ Deficit(j) \in Nat
    BY <1>2 DEF Unresolved, Deficit
  <2>3. Deficits \in [Jobs -> Int]
    BY <1>3 DEF Deficits
  <2> QED  BY <2>1, <2>2, <2>3
<1>5. Keys(InTurn)
  <2>1. \A j \in Jobs : InTurn[j] = j
    BY DEF InTurn
  <2>2. InTurn \in [Jobs -> Int]
    BY <1>1 DEF InTurn
  <2> QED  BY <2>1, <2>2 DEF Keys
<1>6. Weight \in Nat /\ \A j \in Jobs : j \in Nat /\ j < Weight
  <2>1. Cardinality(Jobs) \in Nat
    BY JobsCounted
  <2>2. Jobs = 0..(Cardinality(Jobs) - 1)
    BY DEF ExactAssumption
  <2> QED  BY <2>1, <2>2 DEF Weight
<1>7. \A j \in Jobs : NeedierFirst[j] = Deficit(j) * Weight + j
  BY DEF NeedierFirst
<1> HIDE DEF Weight
<1>8. ASSUME NEW j \in Jobs, NEW h \in Jobs, Deficit(j) < Deficit(h)
      PROVE  NeedierFirst[j] # NeedierFirst[h]
  <2> DEFINE x == Deficit(h)
             y == Deficit(j)
  <2>1. x \in Int /\ y \in Int /\ x >= y + 1
    BY <1>3, <1>8
  <2> HIDE DEF x, y
  <2>2. x * Weight \in Int /\ y * Weight \in Int /\ x * Weight >= y * Weight + Weight
    BY <1>6, <2>1, MoreTimes
  <2>3. NeedierFirst[j] = y * Weight + j /\ NeedierFirst[h] = x * Weight + h
    BY <1>7 DEF x, y
  <2> DEFINE p == x * Weight
             q == y * Weight
  <2> HIDE DEF p, q
  <2>4. p \in Int /\ q \in Int /\ p >= q + Weight /\ NeedierFirst[j] = q + j /\ NeedierFirst[h] = p + h
    BY <2>2, <2>3 DEF p, q
  <2> QED  BY <1>6, <2>4
<1>9. ASSUME NEW j \in Jobs, NEW h \in Jobs, NeedierFirst[j] = NeedierFirst[h] PROVE j = h
  <2>1. Deficit(j) = Deficit(h)
    BY <1>3, <1>8, <1>9
  <2> DEFINE p == Deficit(j) * Weight
  <2>2. p \in Int
    BY <1>3, <1>6
  <2>3. NeedierFirst[j] = p + j /\ NeedierFirst[h] = p + h
    BY <1>7, <2>1
  <2> HIDE DEF p
  <2>4. p + j = p + h
    BY <1>9, <2>3
  <2>5. j \in Int /\ h \in Int
    BY <1>1
  <2> QED  BY <2>2, <2>4, <2>5
<1>10. Keys(NeedierFirst)
  <2>1. NeedierFirst \in [Jobs -> Int]
    <3>1. \A j \in Jobs : NeedierFirst[j] \in Int
      BY <1>3, <1>6, <1>7
    <3>2. NeedierFirst = [j \in Jobs |-> NeedierFirst[j]]
      BY DEF NeedierFirst
    <3> QED  BY <3>1, <3>2
  <2> QED  BY <1>9, <2>1 DEF Keys
<1> QED  BY <1>4, <1>5, <1>10

LEMMA RoundSlotsAre ==
  ASSUME ExactAssumption, PlayTyped
  PROVE  RoundSlots \in Seq(Jobs)
<1>1. Keys(InTurn) /\ Keys(NeedierFirst) /\ \A j \in Unresolved : Deficits[j] \in Nat
  BY SlotKeys
<1>2. Unresolved \in SUBSET Jobs
  BY DEF Unresolved
<1>3. SlotList(Unresolved, Deficits, InTurn) \in Seq(Jobs)
  BY <1>1, <1>2, SlotListIs
<1>4. SlotList(Unresolved, [j \in Jobs |-> 1], NeedierFirst) \in Seq(Jobs)
  <2> DEFINE each == [j \in Jobs |-> 1]
  <2>1. each \in [Jobs -> Nat]
    OBVIOUS
  <2> HIDE DEF each
  <2>2. SlotList(Unresolved, each, NeedierFirst) \in Seq(Jobs)
    BY <1>1, <1>2, <2>1, SlotListIs
  <2> QED  BY <2>2 DEF each
<1> QED  BY <1>3, <1>4 DEF RoundSlots

\* As many are assigned as are owned.
LEMMA MatchedCounted ==
  ASSUME NEW owner
  PROVE  Cardinality({<<owner[i], i>> : i \in Owned(owner)}) = Cardinality(Owned(owner))
<1> DEFINE S == Owned(owner)
           T == {<<owner[i], i>> : i \in S}
           f == [i \in S |-> <<owner[i], i>>]
<1>1. IsFiniteSet(S)
  BY IdentitiesAssumption, FS_Subset DEF Owned
<1>2. f \in Bijection(S, T)
  <2>1. \A i \in S : f[i] = <<owner[i], i>>
    OBVIOUS
  <2>2. f \in [S -> T]
    OBVIOUS
  <2>3. \A t \in T : \E i \in S : f[i] = t
    OBVIOUS
  <2> HIDE DEF f
  <2>4. \A i, h \in S : f[i] = f[h] => i = h
    BY <2>1
  <2> HIDE DEF S, T
  <2> QED  BY <2>2, <2>3, <2>4 DEF Bijection, Injection, Surjection, IsInjective
<1> HIDE DEF S, T, f
<1>3. ExistsBijection(S, T)
  BY <1>2 DEF ExistsBijection
<1>4. Cardinality(S) = Cardinality(T)
  BY <1>1, <1>3, FS_Bijection
<1> QED  BY <1>4 DEF S, T

\* slot_matching, whose augmenting path is a search through whoever was not
\* seen yet, matches as many identities as any matching of the slots of a round
\* can, whatever the game.
THEOREM MatchingsAlways == ASSUME ExactAssumption PROVE ExactSpec => []MatchingIsMaximum
<1>1. PlayInv => MatchingIsMaximum
  <2> SUFFICES ASSUME PlayInv PROVE MatchingIsMaximum
    OBVIOUS
  <2> DEFINE slots == RoundSlots
             N == Len(slots)
             owner == SlotMatching(game, unused, slots)
             Sum(K) == SlotsUpTo(slots, N, Jobs \ K) + Cardinality(WantedBy(game, unused, K))
             Shown(K) == SlotsOf(Jobs \ K) + Cardinality(unused \cap UNION {Compatible(j) : j \in K})
  <2>1. PlayTyped /\ game \in Games /\ unused \in SUBSET Identities
    BY DEF PlayInv, PlayTyped
  <2>2. slots \in Seq(Jobs)
    BY <2>1, RoundSlotsAre
  <2>3. N \in Nat /\ DOMAIN slots = 1..N
    BY <2>2
  <2>4. \A K \in SUBSET Jobs : Shown(K) = Sum(K)
    <3> SUFFICES ASSUME NEW K \in SUBSET Jobs PROVE Shown(K) = Sum(K)
      OBVIOUS
    <3>1. SlotsOf(Jobs \ K) = SlotsUpTo(slots, N, Jobs \ K)
      BY <2>3 DEF SlotsOf, SlotsUpTo
    <3>2. unused \cap UNION {Compatible(j) : j \in K} = WantedBy(game, unused, K)
      BY <2>1 DEF Compatible, WantedBy
    <3> QED  BY <3>1, <3>2
  <2>5. Cardinality(Matched) = Cardinality(Owned(owner))
    <3>1. Matched = {<<owner[i], i>> : i \in Owned(owner)}
      BY DEF Matched
    <3> HIDE DEF owner
    <3> QED  BY <3>1, MatchedCounted
  <2> HIDE DEF slots, N, owner
  <2>6. /\ Within(game, unused, slots, N, owner)
        /\ \E J : Tight(game, unused, slots, N, owner, J)
    BY <2>1, <2>2, MatchingTight DEF N, owner
  <2>7. Cardinality(Owned(owner)) = Least({Sum(K) : K \in SUBSET Jobs})
    BY <2>1, <2>3, <2>6, TightIsMaximum
  <2>8. {Sum(K) : K \in SUBSET Jobs} = {Shown(K) : K \in SUBSET Jobs}
    BY <2>4
  <2> QED  BY <2>5, <2>7, <2>8 DEF MatchingIsMaximum
<1> QED  BY <1>1, PlayInvAlways, PTL

-------------------------------------------------------------------------------
(* What is possible knowing who fails                                      *)

\* Jobs that have all they need: each has its own identities, nobody twice.
Provides(g, idle, layout) ==
  /\ layout \in [Jobs -> SUBSET idle]
  /\ \A j \in Jobs : layout[j] \subseteq Serving(g, j)
  /\ \A j, h \in Jobs : j # h => layout[j] \cap layout[h] = {}

LEMMA SlotsApart ==
  ASSUME NEW slots, NEW n \in Nat, NEW D, NEW E, D \cap E = {}
  PROVE  SlotsUpTo(slots, n, D \cup E) = SlotsUpTo(slots, n, D) + SlotsUpTo(slots, n, E)
<1> DEFINE d == {k \in 1..n : slots[k] \in D}
           e == {k \in 1..n : slots[k] \in E}
           both == {k \in 1..n : slots[k] \in D \cup E}
<1>1. both = d \cup e /\ d \cap e = {} /\ d \subseteq 1..n /\ e \subseteq 1..n
  OBVIOUS
<1>2. SlotsUpTo(slots, n, D \cup E) = Cardinality(both) /\ SlotsUpTo(slots, n, D) = Cardinality(d)
      /\ SlotsUpTo(slots, n, E) = Cardinality(e)
  BY DEF SlotsUpTo
<1>3. IsFiniteSet(1..n)
  BY FS_Interval
<1> HIDE DEF d, e, both
<1>4. IsFiniteSet(d) /\ IsFiniteSet(e)
  BY <1>1, <1>3, FS_Subset
<1>5. Cardinality(d \cup e) = Cardinality(d) + Cardinality(e) - Cardinality(d \cap e)
  BY <1>4, FS_Union
<1>6. Cardinality(d \cap e) = 0 /\ Cardinality(d) \in Nat /\ Cardinality(e) \in Nat
  BY <1>1, <1>4, FS_EmptySet, FS_CardinalityType
<1> QED  BY <1>1, <1>2, <1>5, <1>6

\* The slots of some jobs are no more than those planned for them.
LEMMA SlotsProvided ==
  ASSUME NEW g \in Games, NEW idle \in SUBSET Identities, NEW layout, Provides(g, idle, layout),
         NEW J \in SUBSET Jobs, NEW slots, NEW n \in Nat,
         \A j \in J : SlotsUpTo(slots, n, {j}) <= Cardinality(layout[j])
  PROVE  \A D \in SUBSET J : SlotsUpTo(slots, n, D) <= Cardinality(AssignedTo(layout, D))
<1> DEFINE U(D) == AssignedTo(layout, D)
           Good == {D \in SUBSET J : SlotsUpTo(slots, n, D) <= Cardinality(U(D))}
<1>1. layout \in [Jobs -> SUBSET idle] /\ \A j, h \in Jobs : j # h => layout[j] \cap layout[h] = {}
  BY DEF Provides
<1>2. \A D \in SUBSET J : U(D) \in SUBSET Identities
  BY <1>1 DEF AssignedTo
<1>3. \A S \in SUBSET Identities : IsFiniteSet(S) /\ Cardinality(S) \in Nat
  BY IdentitiesAssumption, FS_Subset, FS_CardinalityType
<1>4. {} \in Good
  <2>1. SlotsUpTo(slots, n, {}) = 0
    <3>1. {k \in 1..n : slots[k] \in {}} = {}
      OBVIOUS
    <3> QED  BY <3>1, FS_EmptySet DEF SlotsUpTo
  <2>2. Cardinality(U({})) \in Nat
    BY <1>2, <1>3
  <2> HIDE DEF U
  <2> QED  BY <2>1, <2>2
<1>5. ASSUME NEW D \in SUBSET J, NEW j \in D, D \ {j} \in Good PROVE D \in Good
  <2> DEFINE E == D \ {j}
  <2>1. SlotsUpTo(slots, n, D) = SlotsUpTo(slots, n, E) + SlotsUpTo(slots, n, {j})
    <3>1. D = E \cup {j} /\ E \cap {j} = {}
      OBVIOUS
    <3> HIDE DEF E
    <3> QED  BY <3>1, SlotsApart
  <2>2. U(D) = U(E) \cup layout[j] /\ U(E) \cap layout[j] = {}
    BY <1>1 DEF AssignedTo
  <2>3. U(E) \in SUBSET Identities /\ layout[j] \in SUBSET Identities
    BY <1>1, <1>2
  <2>4. SlotsUpTo(slots, n, E) <= Cardinality(U(E))
    BY <1>5
  <2> DEFINE s == U(E)
             t == layout[j]
  <2>5. IsFiniteSet(s) /\ IsFiniteSet(t) /\ Cardinality(s) \in Nat /\ Cardinality(t) \in Nat
    <3> HIDE DEF s, t, U
    <3>1. s \in SUBSET Identities /\ t \in SUBSET Identities
      BY <2>3 DEF s, t
    <3> QED  BY <1>3, <3>1
  <2>6. Cardinality(s \cup t) = Cardinality(s) + Cardinality(t)
    <3>1. s \cap t = {}
      BY <2>2
    <3> HIDE DEF s, t
    <3>2. Cardinality(s \cup t) = Cardinality(s) + Cardinality(t) - Cardinality(s \cap t)
      BY <2>5, FS_Union
    <3>3. Cardinality(s \cap t) = 0
      BY <3>1, FS_EmptySet
    <3> QED  BY <2>5, <3>2, <3>3
  <2>7. SlotsUpTo(slots, n, {j}) <= Cardinality(t)
    OBVIOUS
  <2>8. SlotsUpTo(slots, n, E) \in Nat /\ SlotsUpTo(slots, n, {j}) \in Nat
    BY SlotsGrow
  <2>9. SlotsUpTo(slots, n, D) <= Cardinality(U(D))
    <3>1. Cardinality(U(D)) = Cardinality(s \cup t) /\ SlotsUpTo(slots, n, E) <= Cardinality(s)
      BY <2>2, <2>4
    <3> HIDE DEF s, t, U, E
    <3> QED  BY <2>1, <2>5, <2>6, <2>7, <2>8, <3>1
  <2> QED  BY <2>9
<1>6. SUBSET J \subseteq Good
  <2>1. IsFiniteSet(J)
    BY JobsCounted
  <2>2. \A D \in SUBSET J : D # {} /\ (\A j \in D : D \ {j} \in Good) => D \in Good
    BY <1>5
  <2> HIDE DEF Good
  <2> QED  BY <1>4, <2>1, <2>2, AllSubsets
<1> QED  BY <1>6

Viable(g, F) == {j \in Jobs : Cardinality({i \in Identities \ F : j \in g.compat[i]}) >= g.need[j]}

\* offline_maximum counts jobs.
LEMMA OfflineIsNumber ==
  ASSUME NEW g, NEW F
  PROVE  /\ OfflineMaximum(g, F) \in Nat
         /\ \A J \in SUBSET Viable(g, F) :
              FeasibleJobs(g, Identities \ F, J) => Cardinality(J) <= OfflineMaximum(g, F)
<1> DEFINE idle == Identities \ F
           viable == Viable(g, F)
           S == {0} \cup {Cardinality(V) : V \in {W \in SUBSET viable : FeasibleJobs(g, idle, W)}}
<1>1. OfflineMaximum(g, F) = Greatest(S)
  BY Zenon DEF OfflineMaximum, Viable
<1>2. \A J \in SUBSET viable : FeasibleJobs(g, idle, J) => Cardinality(J) \in S
  OBVIOUS
<1>3. S \subseteq 0..Cardinality(Jobs) /\ S # {}
  <2>1. \A V \in SUBSET viable : Cardinality(V) \in 0..Cardinality(Jobs)
    <3>1. viable \subseteq Jobs
      BY DEF Viable
    <3> HIDE DEF viable
    <3> QED  BY <3>1, JobsCounted
  <2>2. 0 \in 0..Cardinality(Jobs)
    BY JobsCounted
  <2> HIDE DEF viable
  <2> QED  BY <2>1, <2>2
<1> HIDE DEF S
<1>4. Greatest(S) \in S /\ \A m \in S : m <= Greatest(S)
  <2>1. IsFiniteSet(0..Cardinality(Jobs)) /\ S \subseteq Int
    BY <1>3, JobsCounted, FS_Interval
  <2>2. IsFiniteSet(S)
    BY <1>3, <2>1, FS_Subset
  <2> QED  BY <1>3, <2>1, <2>2, GreatestIs
<1>5. Greatest(S) \in Nat
  <2>1. Greatest(S) \in 0..Cardinality(Jobs)
    BY <1>3, <1>4
  <2> QED  BY <2>1
<1>6. \A J \in SUBSET Viable(g, F) : FeasibleJobs(g, Identities \ F, J) => Cardinality(J) <= OfflineMaximum(g, F)
  <2> HIDE DEF viable
  <2>1. \A J \in SUBSET viable : FeasibleJobs(g, idle, J) => Cardinality(J) <= Greatest(S)
    BY <1>2, <1>4
  <2> QED  BY <1>1, <2>1 DEF viable
<1> QED  BY <1>1, <1>5, <1>6

\* offline_maximum counts no fewer jobs than can have what they need.
LEMMA OfflineReaches ==
  ASSUME ExactAssumption, NEW g \in Games, NEW F \in SUBSET Identities, NEW layout,
         Provides(g, Identities \ F, layout), NEW J \in SUBSET Jobs,
         \A j \in J : g.need[j] <= Cardinality(layout[j])
  PROVE  Cardinality(J) <= OfflineMaximum(g, F)
<1> DEFINE idle == Identities \ F
           slots == SlotList(J, g.need, InTurn)
           N == Len(slots)
           owner == SlotMatching(g, idle, slots)
           viable == Viable(g, F)
<1>1. /\ layout \in [Jobs -> SUBSET idle] /\ \A j \in Jobs : layout[j] \subseteq Serving(g, j)
      /\ idle \in SUBSET Identities /\ Provides(g, idle, layout)
  BY DEF Provides
<1>2. g.need \in [Jobs -> Nat \ {0}]
  BY GameFacts
<1>3. Keys(InTurn)
  <2>1. \A j \in Jobs : InTurn[j] = j
    BY DEF InTurn
  <2>2. InTurn \in [Jobs -> Int]
    BY JobsAssumption DEF InTurn
  <2> QED  BY <2>1, <2>2 DEF Keys
<1>4. /\ slots \in Seq(Jobs) /\ N \in Nat
      /\ \A n \in 1..N : slots[n] \in J
      /\ \A j \in J : SlotsUpTo(slots, N, {j}) <= g.need[j]
  <2>1. \A j \in J : g.need[j] \in Nat
    BY <1>2
  <2>2. /\ slots \in Seq(Jobs)
        /\ \A n \in 1..N : slots[n] \in J
        /\ \A j \in J : SlotsUpTo(slots, N, {j}) <= g.need[j]
    BY <1>3, <2>1, SlotListIs
  <2> QED  BY <2>2
<1>5. \A T \in SUBSET Identities : IsFiniteSet(T) /\ Cardinality(T) \in Nat
  BY IdentitiesAssumption, FS_Subset, FS_CardinalityType
<1> HIDE DEF slots, N
<1>6. \A j \in J : SlotsUpTo(slots, N, {j}) <= Cardinality(layout[j])
  <2> SUFFICES ASSUME NEW j \in J PROVE SlotsUpTo(slots, N, {j}) <= Cardinality(layout[j])
    OBVIOUS
  <2>1. SlotsUpTo(slots, N, {j}) \in Nat
    BY <1>4, SlotsGrow
  <2>2. Cardinality(layout[j]) \in Nat
    <3>1. layout[j] \in SUBSET Identities
      BY <1>1
    <3> QED  BY <1>5, <3>1
  <2>3. SlotsUpTo(slots, N, {j}) <= g.need[j] /\ g.need[j] <= Cardinality(layout[j]) /\ g.need[j] \in Nat
    BY <1>2, <1>4
  <2> QED  BY <2>1, <2>2, <2>3
<1>7. FeasibleJobs(g, idle, J)
  <2> HIDE DEF idle, owner
  <2>1. Within(g, idle, slots, N, owner) /\ \E T : Tight(g, idle, slots, N, owner, T)
    BY <1>1, <1>4, MatchingTight DEF N, owner
  <2> DEFINE sum == [K \in SUBSET Jobs |-> SlotsUpTo(slots, N, Jobs \ K) + Cardinality(WantedBy(g, idle, K))]
             B == {sum[K] : K \in SUBSET Jobs}
  <2>2. Cardinality(Owned(owner)) = Least(B)
    <3>1. Cardinality(Owned(owner)) =
            Least({SlotsUpTo(slots, N, Jobs \ K) + Cardinality(WantedBy(g, idle, K)) : K \in SUBSET Jobs})
      BY <1>1, <1>4, <2>1, TightIsMaximum
    <3>2. B = {SlotsUpTo(slots, N, Jobs \ K) + Cardinality(WantedBy(g, idle, K)) : K \in SUBSET Jobs}
      OBVIOUS
    <3> QED  BY <3>1, <3>2
  <2>3. SlotsUpTo(slots, N, Jobs) = N
    <3>1. {k \in 1..N : slots[k] \in Jobs} = 1..N
      BY <1>4
    <3>2. Cardinality(1..N) = N
      BY <1>4, FS_Interval
    <3> QED  BY <3>1, <3>2 DEF SlotsUpTo
  <2>4. ASSUME NEW K \in SUBSET Jobs PROVE sum[K] \in Nat /\ N <= sum[K]
    <3> DEFINE D == K \cap J
    <3>1. SlotsUpTo(slots, N, Jobs) = SlotsUpTo(slots, N, Jobs \ K) + SlotsUpTo(slots, N, K)
      <4>1. Jobs = (Jobs \ K) \cup K /\ (Jobs \ K) \cap K = {}
        OBVIOUS
      <4>2. SlotsUpTo(slots, N, (Jobs \ K) \cup K) = SlotsUpTo(slots, N, Jobs \ K) + SlotsUpTo(slots, N, K)
        BY <1>4, SlotsApart
      <4> QED  BY <4>1, <4>2
    <3>2. SlotsUpTo(slots, N, K) = SlotsUpTo(slots, N, D)
      <4>1. {k \in 1..N : slots[k] \in K} = {k \in 1..N : slots[k] \in D}
        BY <1>4
      <4> QED  BY <4>1 DEF SlotsUpTo
    <3>3. SlotsUpTo(slots, N, D) <= Cardinality(AssignedTo(layout, D))
      <4>1. \A E \in SUBSET J : SlotsUpTo(slots, N, E) <= Cardinality(AssignedTo(layout, E))
        BY <1>1, <1>4, <1>6, SlotsProvided
      <4> QED  BY <4>1
    <3> DEFINE U == AssignedTo(layout, D)
               W == WantedBy(g, idle, K)
    <3>4. U \subseteq W /\ W \subseteq Identities
      BY <1>1 DEF WantedBy, Serving, AssignedTo
    <3>5. Cardinality(U) <= Cardinality(W) /\ Cardinality(W) \in Nat /\ Cardinality(U) \in Nat
      <4> HIDE DEF U, W
      <4>1. IsFiniteSet(W) /\ IsFiniteSet(U)
        BY <1>5, <3>4, FS_Subset
      <4> QED  BY <3>4, <4>1, FS_Subset, FS_CardinalityType
    <3>6. SlotsUpTo(slots, N, Jobs \ K) \in Nat /\ SlotsUpTo(slots, N, D) \in Nat
      BY <1>4, SlotsGrow
    <3>7. sum[K] = SlotsUpTo(slots, N, Jobs \ K) + Cardinality(W)
      OBVIOUS
    <3> HIDE DEF U, W, D, sum
    <3>8. SlotsUpTo(slots, N, D) <= Cardinality(U)
      BY <3>3 DEF U
    <3> DEFINE a == SlotsUpTo(slots, N, Jobs \ K)
               d == SlotsUpTo(slots, N, D)
               u == Cardinality(U)
               w == Cardinality(W)
    <3>9. /\ N = a + d /\ d <= u /\ u <= w /\ sum[K] = a + w
          /\ a \in Nat /\ d \in Nat /\ u \in Nat /\ w \in Nat
      BY <2>3, <3>1, <3>2, <3>5, <3>6, <3>7, <3>8
    <3> HIDE DEF a, d, u, w
    <3> QED  BY <3>9
  <2>5. sum[{}] = N
    <3>1. Jobs \ {} = Jobs /\ WantedBy(g, idle, {}) = {}
      BY DEF WantedBy
    <3>2. sum[{}] = SlotsUpTo(slots, N, Jobs \ {}) + Cardinality(WantedBy(g, idle, {}))
      OBVIOUS
    <3> HIDE DEF sum
    <3>3. sum[{}] = N + Cardinality({})
      BY <2>3, <3>1, <3>2
    <3>4. Cardinality({}) = 0
      BY FS_EmptySet
    <3> QED  BY <1>4, <3>3, <3>4
  <2> HIDE DEF sum
  <2>6. N \in B /\ \A v \in B : v \in Nat /\ N <= v
    BY <2>4, <2>5
  <2> HIDE DEF B
  <2>7. Least(B) = N
    <3>1. \A v \in B : (\A w \in B : v <= w) => v = N
      <4> SUFFICES ASSUME NEW v \in B, \A w \in B : v <= w PROVE v = N
        OBVIOUS
      <4>1. v <= N /\ N <= v /\ v \in Nat
        BY <2>6
      <4> QED  BY <1>4, <4>1
    <3> QED  BY <2>6, <3>1 DEF Least
  <2>8. Cardinality(Owned(SlotMatching(g, idle, slots))) = Len(slots)
    BY <2>2, <2>7 DEF owner, N
  <2> QED  BY <2>8, Zenon DEF FeasibleJobs, slots
<1>8. J \subseteq viable
  <2> SUFFICES ASSUME NEW j \in J PROVE Cardinality({i \in idle : j \in g.compat[i]}) >= g.need[j]
    BY DEF Viable
  <2> DEFINE W == {i \in idle : j \in g.compat[i]}
  <2>1. layout[j] \subseteq W /\ W \subseteq Identities
    BY <1>1 DEF Serving
  <2> HIDE DEF W
  <2>2. IsFiniteSet(W) /\ IsFiniteSet(layout[j])
    BY <1>5, <2>1, FS_Subset
  <2>3. Cardinality(layout[j]) <= Cardinality(W) /\ Cardinality(W) \in Nat /\ Cardinality(layout[j]) \in Nat
    BY <2>1, <2>2, FS_Subset, FS_CardinalityType
  <2>4. g.need[j] <= Cardinality(layout[j]) /\ g.need[j] \in Nat
    BY <1>2
  <2>5. Cardinality(W) >= g.need[j]
    BY <2>3, <2>4
  <2> QED  BY <2>5 DEF W
<1> QED  BY <1>7, <1>8, OfflineIsNumber

\* Jobs that would be complete if the identities of F fail: with what passed
\* already, and identities that remain and do not fail.
Serves(g, r, c, F, J, layout) ==
  /\ J \in SUBSET Jobs /\ Provides(g, r \ F, layout)
  /\ \A j \in J : g.need[j] <= c[j] + Cardinality(layout[j])

\* The value of a position is possible, whoever of those remaining fails.
WorthServing(C, g, r) ==
  \A c \in CountsWithin(g) : \A b \in 0..g.allowance : \A F \in SUBSET Identities :
    Cardinality(F \cap r) <= b =>
      \E J, layout : Serves(g, r, c, F, J, layout) /\ C[<<r, c, b>>].value <= Cardinality(J)

LEMMA ServesMore ==
  ASSUME NEW g, NEW r, NEW i, NEW c, NEW F, NEW J, NEW layout, Serves(g, r \ {i}, c, F, J, layout)
  PROVE  Serves(g, r, c, F, J, layout)
<1>1. layout \in [Jobs -> SUBSET ((r \ {i}) \ F)]
  BY DEF Serves, Provides
<1>2. layout \in [Jobs -> SUBSET (r \ F)]
  BY <1>1
<1> QED  BY <1>2 DEF Serves, Provides

LEMMA ServesWithPass ==
  ASSUME NEW g \in Games, NEW r \in SUBSET Identities, NEW c \in CountsWithin(g), NEW F, NEW J,
         NEW i \in r, i \notin F, NEW j \in g.compat[i], NEW layout, Serves(g, r \ {i}, WithPass(c, j), F, J, layout)
  PROVE  Serves(g, r, c, F, J, [layout EXCEPT ![j] = @ \cup {i}])
<1> DEFINE more == [layout EXCEPT ![j] = @ \cup {i}]
<1>1. /\ J \in SUBSET Jobs /\ layout \in [Jobs -> SUBSET ((r \ {i}) \ F)]
      /\ \A h \in Jobs : layout[h] \subseteq Serving(g, h)
      /\ \A h, k \in Jobs : h # k => layout[h] \cap layout[k] = {}
      /\ \A h \in J : g.need[h] <= WithPass(c, j)[h] + Cardinality(layout[h])
  BY DEF Serves, Provides
<1>2. c \in [Jobs -> Nat] /\ j \in Jobs /\ i \in Identities /\ g.need \in [Jobs -> Nat \ {0}]
  BY CountFacts, GameFacts
<1>3. \A h \in Jobs : more[h] = IF h = j THEN layout[j] \cup {i} ELSE layout[h]
  BY <1>1
<1>4. \A h \in Jobs : i \notin layout[h]
  BY <1>1
<1>5. more \in [Jobs -> SUBSET (r \ F)]
  <2>1. more = [h \in Jobs |-> more[h]]
    BY <1>1
  <2>2. \A h \in Jobs : more[h] \in SUBSET (r \ F)
    BY <1>1, <1>3
  <2> HIDE DEF more
  <2> QED  BY <2>1, <2>2
<1> HIDE DEF more
<1>6. \A h \in Jobs : more[h] \subseteq Serving(g, h)
  BY <1>1, <1>2, <1>3 DEF Serving
<1>7. \A h, k \in Jobs : h # k => more[h] \cap more[k] = {}
  BY <1>1, <1>3, <1>4
<1>8. ASSUME NEW h \in J PROVE g.need[h] <= c[h] + Cardinality(more[h])
  <2>1. CASE h = j
    <3>1. IsFiniteSet(layout[j])
      <4>1. layout[j] \in SUBSET Identities
        BY <1>1, <1>2
      <4> QED  BY <4>1, IdentitiesAssumption, FS_Subset
    <3>2. Cardinality(layout[j] \cup {i}) = Cardinality(layout[j]) + 1
      BY <1>2, <1>4, <3>1, FS_AddElement
    <3>3. WithPass(c, j)[j] = c[j] + 1 /\ c[j] \in Nat
      BY <1>2 DEF WithPass
    <3>4. g.need[j] <= WithPass(c, j)[j] + Cardinality(layout[j]) /\ g.need[j] \in Nat
      BY <1>1, <1>2, <2>1
    <3>5. Cardinality(layout[j]) \in Nat
      BY <3>1, FS_CardinalityType
    <3>6. more[j] = layout[j] \cup {i}
      BY <1>2, <1>3
    <3> QED  BY <2>1, <3>2, <3>3, <3>4, <3>5, <3>6
  <2>2. CASE h # j
    <3>1. WithPass(c, j)[h] = c[h]
      BY <1>1, <1>2, <2>2 DEF WithPass
    <3> QED  BY <1>1, <1>3, <2>2, <3>1
  <2> QED  BY <2>1, <2>2
<1>9. Serves(g, r, c, F, J, more)
  BY <1>1, <1>5, <1>6, <1>7, <1>8 DEF Serves, Provides
<1> QED  BY <1>9 DEF more

LEMMA ServingWorth ==
  ASSUME ExactAssumption, NEW g \in Games, NEW C, Solves(C, g)
  PROVE  \A r \in SUBSET Identities : WorthServing(C, g, r)
<1> DEFINE Good == {r \in SUBSET Identities : WorthServing(C, g, r)}
<1>0. \A r \in SUBSET Identities : Valued(C, g, r)
  BY AllValued
<1>1. ASSUME NEW r \in SUBSET Identities, \A i \in r : WorthServing(C, g, r \ {i})
      PROVE  WorthServing(C, g, r)
  <2> SUFFICES ASSUME NEW c \in CountsWithin(g), NEW b \in 0..g.allowance, NEW F \in SUBSET Identities,
                      Cardinality(F \cap r) <= b
               PROVE  \E J, layout : Serves(g, r, c, F, J, layout) /\ C[<<r, c, b>>].value <= Cardinality(J)
    BY DEF WorthServing
  <2>1. c \in [Jobs -> Nat] /\ g.need \in [Jobs -> Nat \ {0}] /\ g.allowance \in Nat
    BY CountFacts, GameFacts
  <2>2. CASE Options(g, r, c) = {}
    <3> DEFINE layout == [j \in Jobs |-> {}]
               J == Finished(g, c)
    <3>1. C[<<r, c, b>>].value = Cardinality(J)
      <4>1. C[<<r, c, b>>] = Solution(g, C, r, c, b)
        BY DEF Solves
      <4>2. Solution(g, C, r, c, b) = [value |-> Done(g, c), moves |-> {}]
        BY <2>2, Zenon DEF Solution
      <4>3. Done(g, c) = Cardinality(J)
        BY Zenon DEF Done, Finished
      <4> QED  BY <4>1, <4>2, <4>3
    <3>2. Provides(g, r \ F, layout)
      BY DEF Provides
    <3>3. J \in SUBSET Jobs /\ \A j \in J : g.need[j] <= c[j] + Cardinality(layout[j])
      <4>1. \A j \in J : j \in Jobs /\ c[j] >= g.need[j] /\ c[j] \in Nat /\ g.need[j] \in Nat
        BY <2>1 DEF Finished
      <4>2. \A j \in J : Cardinality(layout[j]) = 0
        BY <4>1, FS_EmptySet
      <4> HIDE DEF layout, J
      <4> QED  BY <4>1, <4>2
    <3>4. Cardinality(J) \in Nat
      BY <3>3, JobsCounted
    <3>5. Serves(g, r, c, F, J, layout) /\ C[<<r, c, b>>].value <= Cardinality(J)
      <4> HIDE DEF J, layout
      <4> QED  BY <3>1, <3>2, <3>3, <3>4 DEF Serves
    <3> QED  BY <3>5
  <2>3. CASE Options(g, r, c) # {}
    <3>0. \A i \in r : Valued(C, g, r \ {i})
      BY <1>0
    <3>1. PICK a \in Options(g, r, c) : C[<<r, c, b>>].value = Worst(C, r, c, b, a[1], a[2])
      <4>1. LeadsAt(C, g, r, c, b)
        BY <2>3, <3>0, Leads
      <4> QED  BY <4>1 DEF LeadsAt
    <3> DEFINE i == a[2]
               j == a[1]
               value == C[<<r, c, b>>].value
    <3>2. /\ i \in r /\ j \in Jobs /\ j \in g.compat[i] /\ WithPass(c, j) \in CountsWithin(g)
          /\ r \ {i} \in SUBSET Identities
      BY OptionFacts
    <3>3. WorstFits(value, C, r, c, b, a)
      BY <3>0, <3>1, <3>2, WorstIs
    <3>4. value \in 0..Cardinality(Jobs)
      BY <3>3 DEF WorstFits
    <3>5. WorthServing(C, g, r \ {i})
      BY <1>1, <3>2
    <3>6. IsFiniteSet(F \cap r) /\ Cardinality(F \cap r) \in Nat
      BY IdentitiesAssumption, FS_Subset, FS_CardinalityType
    <3>7. CASE i \in F
      <4>1. Cardinality(F \cap (r \ {i})) = Cardinality(F \cap r) - 1
        <5>1. F \cap (r \ {i}) = (F \cap r) \ {i} /\ i \in F \cap r
          BY <3>2, <3>7
        <5>2. Cardinality((F \cap r) \ {i}) = Cardinality(F \cap r) - 1
          <6> DEFINE s == F \cap r
                     x == i
          <6>1. IsFiniteSet(s) /\ x \in s
            BY <3>6, <5>1
          <6> HIDE DEF s, x
          <6>2. Cardinality(s \ {x}) = Cardinality(s) - 1
            BY <6>1, FS_RemoveElement
          <6> QED  BY <6>2 DEF s, x
        <5> QED  BY <5>1, <5>2
      <4>2. Cardinality(F \cap (r \ {i})) \in Nat
        <5>1. IsFiniteSet(F \cap (r \ {i}))
          BY IdentitiesAssumption, FS_Subset
        <5> QED  BY <5>1, FS_CardinalityType
      <4>3. b # 0 /\ b - 1 \in 0..g.allowance /\ Cardinality(F \cap (r \ {i})) <= b - 1
        BY <2>1, <3>6, <4>1, <4>2
      <4>4. PICK J, layout : /\ Serves(g, r \ {i}, c, F, J, layout)
                           /\ C[<<r \ {i}, c, b - 1>>].value <= Cardinality(J)
        BY <3>5, <4>3 DEF WorthServing
      <4>5. value <= C[<<r \ {i}, c, b - 1>>].value
        BY <3>3, <4>3 DEF WorstFits
      <4>6. C[<<r \ {i}, c, b - 1>>].value \in 0..Cardinality(Jobs)
        BY <1>0, <3>2, <4>3 DEF Valued
      <4>7. Cardinality(J) \in Nat
        <5>1. J \in SUBSET Jobs
          BY <4>4 DEF Serves
        <5> QED  BY <5>1, JobsCounted
      <4>8. value <= Cardinality(J)
        <5> DEFINE y == C[<<r \ {i}, c, b - 1>>].value
        <5>1. value <= y /\ y <= Cardinality(J) /\ y \in Nat /\ value \in Nat
          BY <3>4, <4>4, <4>5, <4>6, JobsCounted
        <5> HIDE DEF y, value
        <5> QED  BY <4>7, <5>1
      <4>9. Serves(g, r, c, F, J, layout)
        BY <4>4, ServesMore
      <4> QED  BY <4>8, <4>9
    <3>8. CASE i \notin F
      <4>1. F \cap (r \ {i}) = F \cap r
        BY <3>8
      <4> DEFINE d == WithPass(c, j)
      <4>2. d \in CountsWithin(g)
        BY <3>2
      <4>3. PICK J, layout : /\ Serves(g, r \ {i}, d, F, J, layout)
                           /\ C[<<r \ {i}, d, b>>].value <= Cardinality(J)
        <5> HIDE DEF d
        <5> QED  BY <3>5, <4>1, <4>2 DEF WorthServing
      <4>4. value <= C[<<r \ {i}, d, b>>].value
        BY <3>3 DEF WorstFits
      <4>5. C[<<r \ {i}, d, b>>].value \in 0..Cardinality(Jobs)
        <5> HIDE DEF d
        <5> QED  BY <1>0, <3>2, <4>2 DEF Valued
      <4>6. Cardinality(J) \in Nat
        <5>1. J \in SUBSET Jobs
          BY <4>3 DEF Serves
        <5> QED  BY <5>1, JobsCounted
      <4>7. value <= Cardinality(J)
        <5> DEFINE y == C[<<r \ {i}, d, b>>].value
        <5>1. value <= y /\ y <= Cardinality(J) /\ y \in Nat /\ value \in Nat
          BY <3>4, <4>3, <4>4, <4>5, JobsCounted
        <5> HIDE DEF y, value
        <5> QED  BY <4>6, <5>1
      <4>8. Serves(g, r, c, F, J, [layout EXCEPT ![j] = @ \cup {i}])
        BY <3>2, <3>8, <4>3, ServesWithPass
      <4> QED  BY <4>7, <4>8
    <3> QED  BY <3>7, <3>8
  <2> QED  BY <2>2, <2>3
<1>2. {} \in Good
  BY <1>1
<1>3. ASSUME NEW r \in SUBSET Identities, r # {}, \A i \in r : r \ {i} \in Good PROVE r \in Good
  BY <1>1, <1>3
<1>4. SUBSET Identities \subseteq Good
  <2> HIDE DEF Good
  <2> QED  BY <1>2, <1>3, IdentitiesAssumption, AllSubsets
<1> QED  BY <1>4

RootOf(g) == Cache[g][<<Identities, [j \in Jobs |-> 0], g.allowance>>].value

\* The value of the first position is possible whichever identities fail.
LEMMA CertifiedIsPossible ==
  ASSUME ExactAssumption, NEW g \in Games, NEW F \in SUBSET Identities, Cardinality(F) <= g.allowance
  PROVE  RootOf(g) <= OfflineMaximum(g, F)
<1> DEFINE zero == [j \in Jobs |-> 0]
           C == Cache[g]
<1>1. zero \in CountsWithin(g) /\ g.allowance \in 0..g.allowance /\ g.need \in [Jobs -> Nat \ {0}]
  <2>1. g.need \in [Jobs -> Nat \ {0}] /\ g.allowance \in Nat
    BY GameFacts
  <2>2. zero \in [Jobs -> Nat] /\ \A j \in Jobs : zero[j] <= g.need[j]
    BY <2>1
  <2> HIDE DEF zero
  <2> QED  BY <2>1, <2>2, CountFacts
<1>2. WorthServing(C, g, Identities)
  <2>1. Solves(C, g)
    BY CacheSolves
  <2> HIDE DEF C
  <2> QED  BY <2>1, ServingWorth
<1>3. F \cap Identities = F
  OBVIOUS
<1>4. \A j \in Jobs : zero[j] = 0
  OBVIOUS
<1> HIDE DEF zero, C
<1>5. PICK J, layout : /\ Serves(g, Identities, zero, F, J, layout)
                     /\ C[<<Identities, zero, g.allowance>>].value <= Cardinality(J)
  BY <1>1, <1>2, <1>3 DEF WorthServing
<1>6. J \in SUBSET Jobs /\ Provides(g, Identities \ F, layout)
  BY <1>5 DEF Serves
<1>7. \A j \in J : g.need[j] <= Cardinality(layout[j])
  <2> SUFFICES ASSUME NEW j \in J PROVE g.need[j] <= Cardinality(layout[j])
    OBVIOUS
  <2>1. g.need[j] <= zero[j] + Cardinality(layout[j]) /\ zero[j] = 0
    BY <1>4, <1>5, <1>6 DEF Serves
  <2>2. layout[j] \in SUBSET Identities
    BY <1>6 DEF Provides
  <2>3. Cardinality(layout[j]) \in Nat
    BY <2>2, IdentitiesAssumption, FS_Subset, FS_CardinalityType
  <2> QED  BY <2>1, <2>3
<1>8. Cardinality(J) <= OfflineMaximum(g, F)
  BY <1>6, <1>7, OfflineReaches
<1>9. C[<<Identities, zero, g.allowance>>].value \in Nat /\ Cardinality(J) \in Nat
  <2>1. Valued(C, g, Identities)
    BY CacheSolves DEF C
  <2>2. C[<<Identities, zero, g.allowance>>].value \in 0..Cardinality(Jobs)
    BY <1>1, <2>1 DEF Valued
  <2> QED  BY <1>6, <2>2, JobsCounted
<1> DEFINE value == C[<<Identities, zero, g.allowance>>].value
           size == Cardinality(J)
           most == OfflineMaximum(g, F)
<1>10. most \in Nat /\ value \in Nat /\ size \in Nat /\ value <= size /\ size <= most
  <2>1. most \in Nat
    BY OfflineIsNumber
  <2>2. value \in Nat /\ size \in Nat
    BY <1>9
  <2>3. value <= size
    BY <1>5
  <2>4. size <= most
    BY <1>8
  <2> QED  BY <2>1, <2>2, <2>3, <2>4
<1> HIDE DEF value, size, most
<1>11. value <= most
  BY <1>10
<1>12. value = RootOf(g)
  BY Zenon DEF C, zero, value, RootOf
<1> QED  BY <1>11, <1>12 DEF most

-------------------------------------------------------------------------------
(* What is selected                                                        *)

\* A selection assigns identities that remain to jobs they serve, each once.
Selected(selection) ==
  /\ \A a \in selection : a \in Jobs \X unused /\ a[1] \in game.compat[a[2]]
  /\ \A a, o \in selection : a[2] = o[2] => a = o

LEMMA SelectionIs ==
  ASSUME ExactAssumption, PlayTyped, NEW selection \in Selections
  PROVE  Selected(selection)
<1> DEFINE O == Options(game, unused, passes)
<1>1. game \in Games /\ unused \in SUBSET Identities /\ passes \in CountsWithin(game) /\ controller \in Controllers
  BY DEF PlayTyped
<1>2. Selected({}) /\ \A a \in O : Selected({a})
  BY DEF Options, Selected
<1>3. Moves = {} \/ \E a \in O : Moves = {a}
  BY PositionFacts
<1>4. \A p \in Proposals : p = {} \/ \E a \in O : p = {a}
  BY DEF Proposals
<1>5. CASE controller \in Planning
  <2>1. selection = {} \/ \E a \in O : selection = {a}
    BY <1>5, PlannerSelects
  <2> QED  BY <1>2, <2>1
<1>6. CASE controller = Filtered
  <2>1. Selections = Proposals
    <3>1. controller # CertifiedPlanner /\ controller # Exact /\ controller # Shield /\ controller # Wave
      BY <1>6 DEF CertifiedPlanner, Exact, Shield, Filtered, Wave
    <3> QED  BY <1>6, <3>1 DEF Selections
  <2> QED  BY <1>2, <1>4, <2>1
<1>7. CASE controller = Wave
  <2> DEFINE slots == RoundSlots
             owner == SlotMatching(game, unused, slots)
  <2>1. Selections = {Matched}
    <3>1. controller # CertifiedPlanner /\ controller # Exact /\ controller # Shield /\ controller # Filtered
      BY <1>7 DEF CertifiedPlanner, Exact, Shield, Filtered, Wave
    <3> QED  BY <1>7, <3>1 DEF Selections
  <2>2. Matched = {<<owner[i], i>> : i \in Owned(owner)}
    BY DEF Matched
  <2>3. slots \in Seq(Jobs)
    BY RoundSlotsAre
  <2> HIDE DEF slots
  <2>4. Within(game, unused, slots, Len(slots), owner)
    BY <1>1, <2>3, MatchingTight
  <2> HIDE DEF owner
  <2>5. owner \in [Identities -> Jobs \cup {NoJob}] /\ Proper(game, unused, owner)
    BY <2>4 DEF Within, Owners
  <2>6. \A i \in Owned(owner) : owner[i] \in Jobs /\ i \in unused /\ owner[i] \in game.compat[i]
    BY <2>5 DEF Owned, Proper
  <2>7. Selected(Matched)
    BY <2>2, <2>6 DEF Selected
  <2> QED  BY <2>1, <2>7
<1> QED  BY <1>1, <1>5, <1>6, <1>7 DEF Controllers, Planning

\* So the layout of what a cap leaves of it provides for nobody twice.
LEMMA PlanProvides ==
  ASSUME ExactAssumption, PlayTyped, NEW selection \in Selections
  PROVE  Provides(game, unused, PlanOf(Affordable(selection)))
<1> DEFINE layout == PlanOf(Affordable(selection))
<1>1. Selected(selection) /\ unused \in SUBSET Identities
  BY SelectionIs DEF PlayTyped
<1>2. Affordable(selection) \subseteq selection
  BY DEF Affordable
<1>3. \A j \in Jobs : layout[j] = {i \in Identities : <<j, i>> \in Affordable(selection)}
  BY DEF PlanOf
<1>4. layout = [j \in Jobs |-> layout[j]]
  BY DEF PlanOf
<1> HIDE DEF layout
<1>5. ASSUME NEW j \in Jobs, NEW i \in layout[j]
      PROVE  <<j, i>> \in selection /\ i \in unused /\ j \in game.compat[i] /\ i \in Identities
  <2>1. <<j, i>> \in selection /\ i \in Identities
    BY <1>2, <1>3, <1>5
  <2> QED  BY <1>1, <2>1 DEF Selected
<1>6. layout \in [Jobs -> SUBSET unused]
  BY <1>4, <1>5
<1>7. \A j \in Jobs : layout[j] \subseteq Serving(game, j)
  BY <1>5 DEF Serving
<1>8. ASSUME NEW j \in Jobs, NEW h \in Jobs, j # h PROVE layout[j] \cap layout[h] = {}
  <2> SUFFICES ASSUME NEW i, i \in layout[j], i \in layout[h] PROVE FALSE
    OBVIOUS
  <2>1. <<j, i>> \in selection /\ <<h, i>> \in selection
    BY <1>5
  <2>2. <<j, i>> = <<h, i>>
    BY <1>1, <2>1 DEF Selected
  <2> QED  BY <1>8, <2>2
<1>9. Provides(game, unused, layout)
  BY <1>6, <1>7, <1>8 DEF Provides
<1> QED  BY <1>9 DEF layout

-------------------------------------------------------------------------------
(* Never more than possible                                                *)

\* What passed was served by identities spent that did not fail.
ServedBy(served) ==
  /\ Provides(game, Identities \ (unused \cup fallen), served)
  /\ \A j \in Jobs : passes[j] <= Cardinality(served[j])
FallenSpent == fallen \cap unused = {}
\* The root's value is that of the first position.
RootIs ==
  IF at = "asked" THEN /\ unused = Identities /\ passes = [j \in Jobs |-> 0] /\ failures = 0
  ELSE rootValue = Unknown \/ rootValue = RootOf(game)
OfflineInv == PlayTyped /\ FallenSpent /\ RootIs /\ \E served : ServedBy(served)

LEMMA OfflineInit == ASSUME ExactAssumption, ExactInit PROVE OfflineInv
<1> DEFINE served == [j \in Jobs |-> {}]
<1>1. PlayTyped
  BY PlanInit DEF PlayInv
<1>2. /\ unused = Identities /\ passes = [j \in Jobs |-> 0] /\ failures = 0 /\ at = "asked" /\ fallen = {}
  BY DEF ExactInit, PublicInit
<1>3. Provides(game, Identities \ (unused \cup fallen), served)
  BY DEF Provides
<1>4. \A j \in Jobs : passes[j] <= Cardinality(served[j])
  <2>1. \A j \in Jobs : passes[j] = 0 /\ served[j] = {}
    BY <1>2
  <2>2. \A j \in Jobs : Cardinality(served[j]) = 0
    BY <2>1, FS_EmptySet
  <2> HIDE DEF served
  <2> QED  BY <2>1, <2>2
<1>5. ServedBy(served)
  BY <1>3, <1>4 DEF ServedBy
<1> QED  BY <1>1, <1>2, <1>5 DEF OfflineInv, FallenSpent, RootIs

\* Whoever is assigned and passes serves.
LEMMA ServedMore ==
  ASSUME ExactAssumption, PlayTyped, FallenSpent, NEW served, ServedBy(served),
         NEW layout, Provides(game, unused, layout), NEW failing \in SUBSET Assigned(layout),
         PlayRound(layout, failing), fallen' = fallen \cup failing
  PROVE  ServedBy([j \in Jobs |-> served[j] \cup (layout[j] \ failing)])' /\ FallenSpent'
<1> DEFINE more == [j \in Jobs |-> served[j] \cup (layout[j] \ failing)]
<1>1. /\ game \in Games /\ unused \in SUBSET Identities /\ passes \in CountsWithin(game) /\ fallen \in SUBSET Identities
  BY DEF PlayTyped
<1>2. /\ layout \in [Jobs -> SUBSET unused]
      /\ \A j \in Jobs : layout[j] \subseteq Serving(game, j)
      /\ \A j, h \in Jobs : j # h => layout[j] \cap layout[h] = {}
  BY DEF Provides
<1>3. /\ served \in [Jobs -> SUBSET (Identities \ (unused \cup fallen))]
      /\ \A j \in Jobs : served[j] \subseteq Serving(game, j)
      /\ \A j, h \in Jobs : j # h => served[j] \cap served[h] = {}
      /\ \A j \in Jobs : passes[j] <= Cardinality(served[j])
  BY DEF ServedBy, Provides
<1>4. /\ unused' = unused \ Assigned(layout) /\ game' = game
      /\ passes' = [j \in Jobs |->
           LET passed == passes[j] + Cardinality(layout[j] \ failing)
           IN  IF passed <= game.need[j] THEN passed ELSE game.need[j]]
  BY DEF PlayRound
<1>5. \A j \in Jobs : layout[j] \subseteq Assigned(layout)
  BY DEF Assigned
<1>6. Assigned(layout) \subseteq unused /\ failing \subseteq unused
  BY <1>2 DEF Assigned
<1>7. FallenSpent'
  <2>1. fallen \cap unused = {}
    BY DEF FallenSpent
  <2> QED  BY <1>4, <2>1 DEF FallenSpent
<1>8. \A j \in Jobs : more[j] = served[j] \cup (layout[j] \ failing)
  OBVIOUS
<1>9. more = [j \in Jobs |-> more[j]]
  OBVIOUS
<1> HIDE DEF more
<1>10. more \in [Jobs -> SUBSET (Identities \ (unused' \cup fallen'))]
  <2>1. fallen \cap unused = {}
    BY DEF FallenSpent
  <2>2. ASSUME NEW j \in Jobs PROVE more[j] \subseteq Identities \ (unused' \cup fallen')
    <3>1. served[j] \subseteq Identities \ (unused' \cup fallen')
      BY <1>3, <1>4, <1>6
    <3>2. layout[j] \ failing \subseteq Identities \ (unused' \cup fallen')
      BY <1>1, <1>2, <1>4, <1>5, <2>1
    <3> QED  BY <1>8, <3>1, <3>2
  <2> QED  BY <1>9, <2>2
<1>11. \A j \in Jobs : more[j] \subseteq Serving(game, j)
  BY <1>2, <1>3, <1>8
<1>12. ASSUME NEW j \in Jobs, NEW h \in Jobs, j # h PROVE more[j] \cap more[h] = {}
  <2>1. served[j] \cap served[h] = {} /\ layout[j] \cap layout[h] = {}
    BY <1>2, <1>3, <1>12
  <2>2. served[j] \cap unused = {} /\ served[h] \cap unused = {} /\ layout[j] \subseteq unused /\ layout[h] \subseteq unused
    BY <1>2, <1>3
  <2> QED  BY <1>8, <2>1, <2>2
<1>13. ASSUME NEW j \in Jobs PROVE passes'[j] <= Cardinality(more[j])
  <2> DEFINE s == served[j]
             t == layout[j] \ failing
  <2>1. s \subseteq Identities /\ t \subseteq Identities /\ s \cap t = {} /\ more[j] = s \cup t
    BY <1>1, <1>2, <1>3, <1>8
  <2>2. Cardinality(s \cup t) = Cardinality(s) + Cardinality(t) /\ Cardinality(s) \in Nat /\ Cardinality(t) \in Nat
    <3> HIDE DEF s, t
    <3>1. IsFiniteSet(s) /\ IsFiniteSet(t)
      BY <2>1, IdentitiesAssumption, FS_Subset
    <3>2. Cardinality(s \cup t) = Cardinality(s) + Cardinality(t) - Cardinality(s \cap t)
      BY <3>1, FS_Union
    <3>3. Cardinality(s \cap t) = 0 /\ Cardinality(s) \in Nat /\ Cardinality(t) \in Nat
      BY <2>1, <3>1, FS_EmptySet, FS_CardinalityType
    <3> QED  BY <3>2, <3>3
  <2>3. passes[j] \in Nat /\ game.need[j] \in Nat
    BY <1>1, CountFacts, GameFacts
  <2> DEFINE p == passes[j] + Cardinality(t)
  <2>4. passes'[j] = IF p <= game.need[j] THEN p ELSE game.need[j]
    BY <1>4
  <2>5. passes[j] <= Cardinality(s)
    BY <1>3
  <2> DEFINE m == Cardinality(s)
             n == Cardinality(t)
  <2>6. p = passes[j] + n /\ m \in Nat /\ n \in Nat /\ passes[j] <= m /\ Cardinality(more[j]) = m + n
    BY <2>1, <2>2, <2>5
  <2> HIDE DEF p, m, n, s, t
  <2> QED  BY <2>3, <2>4, <2>6
<1>14. ServedBy(more)'
  BY <1>4, <1>10, <1>11, <1>12, <1>13 DEF ServedBy, Provides
<1> QED  BY <1>7, <1>14 DEF more

LEMMA OfflineStep == ASSUME ExactAssumption, OfflineInv, [ExactNext]_exactVars PROVE OfflineInv'
<1>0. PICK served : ServedBy(served)
  BY DEF OfflineInv
<1>1. PlayTyped /\ FallenSpent /\ RootIs
  BY DEF OfflineInv
<1>2. ASSUME /\ game' = game /\ unused' = unused /\ passes' = passes /\ failures' = failures /\ attempts' = attempts
             /\ rounds' = rounds /\ controller' = controller /\ cap' = cap /\ fallen' = fallen
      PROVE  ServedBy(served)' /\ FallenSpent'
  BY <1>0, <1>1, <1>2 DEF ServedBy, FallenSpent
<1>3. CASE Certify
  <2>1. /\ game' = game /\ unused' = unused /\ passes' = passes /\ failures' = failures /\ attempts' = attempts
        /\ rounds' = rounds /\ controller' = controller /\ cap' = cap /\ fallen' = fallen /\ pledged' = pledged
        /\ at = "asked" /\ at' \in {"play", "deferred"}
        /\ rootValue' = IF controller \in Planning THEN Value ELSE Unknown
    BY <1>3 DEF Certify, publicState, others
  <2>2. Value = RootOf(game) /\ Value \in Nat
    <3>1. unused = Identities /\ passes = [j \in Jobs |-> 0] /\ failures = 0
      BY <1>1, <2>1 DEF RootIs
    <3>2. game.allowance \in Nat
      BY <1>1, GameFacts DEF PlayTyped
    <3>3. Remaining = game.allowance
      BY <3>1, <3>2 DEF Remaining, InScope
    <3>4. Value = RootOf(game)
      BY <3>1, <3>3, Zenon DEF Value, Position, RootOf
    <3>5. Value \in 0..Cardinality(Jobs)
      BY <1>1, PositionFacts
    <3> QED  BY <3>4, <3>5, JobsCounted
  <2>3. RootIs'
    BY <2>1, <2>2 DEF RootIs
  <2>4. PlayTyped'
    BY <1>1, <2>1, <2>2 DEF PlayTyped
  <2>5. ServedBy(served)' /\ FallenSpent'
    BY <1>2, <2>1
  <2> QED  BY <2>3, <2>4, <2>5 DEF OfflineInv
<1>4. CASE PlayTurn
  <2>1. PlayTyped'
    BY <1>1, <1>4, TurnTyped
  <2>2. at' = at /\ at = "play" /\ rootValue' = rootValue /\ game' = game
    BY <1>4 DEF PlayTurn, Playing, PlayRound
  <2>3. RootIs'
    BY <1>1, <2>2 DEF RootIs
  <2>4. PICK layout, failing :
          /\ Provides(game, unused, layout) /\ failing \in SUBSET Assigned(layout)
          /\ PlayRound(layout, failing) /\ fallen' = fallen \cup failing
    <3>1. PICK selection \in Selections :
            \E failing \in Outcomes(PlanOf(Affordable(selection)), game.allowance + Excess) :
               /\ PlayRound(PlanOf(Affordable(selection)), failing)
               /\ fallen' = fallen \cup failing
      BY <1>4, Zenon DEF PlayTurn
    <3> DEFINE some == PlanOf(Affordable(selection))
    <3>2. Provides(game, unused, some)
      BY <1>1, PlanProvides
    <3>3. PICK failing \in Outcomes(some, game.allowance + Excess) :
            PlayRound(some, failing) /\ fallen' = fallen \cup failing
      BY <3>1
    <3> HIDE DEF some
    <3>4. failing \in SUBSET Assigned(some)
      BY DEF Outcomes
    <3> QED  BY <3>2, <3>3, <3>4
  <2>5. ServedBy([j \in Jobs |-> served[j] \cup (layout[j] \ failing)])' /\ FallenSpent'
    BY <1>0, <1>1, <2>4, ServedMore
  <2>6. \E some : ServedBy(some)'
    BY <2>5
  <2> QED  BY <2>1, <2>3, <2>5, <2>6 DEF OfflineInv
<1>5. CASE EndPlay
  <2>1. /\ game' = game /\ unused' = unused /\ passes' = passes /\ failures' = failures /\ attempts' = attempts
        /\ rounds' = rounds /\ controller' = controller /\ cap' = cap /\ fallen' = fallen /\ pledged' = pledged
        /\ rootValue' = rootValue /\ at = "play" /\ at' = "done"
    BY <1>5 DEF EndPlay, publicState, others
  <2>2. RootIs' /\ PlayTyped'
    BY <1>1, <2>1 DEF RootIs, PlayTyped
  <2>3. ServedBy(served)' /\ FallenSpent'
    BY <1>2, <2>1
  <2> QED  BY <2>2, <2>3 DEF OfflineInv
<1>6. CASE UNCHANGED exactVars
  <2>1. /\ game' = game /\ unused' = unused /\ passes' = passes /\ failures' = failures /\ attempts' = attempts
        /\ rounds' = rounds /\ controller' = controller /\ cap' = cap /\ fallen' = fallen /\ pledged' = pledged
        /\ rootValue' = rootValue /\ at' = at
    BY <1>6 DEF exactVars, publicState
  <2>2. RootIs' /\ PlayTyped'
    BY <1>1, <2>1 DEF RootIs, PlayTyped
  <2>3. ServedBy(served)' /\ FallenSpent'
    BY <1>2, <2>1
  <2> QED  BY <2>2, <2>3 DEF OfflineInv
<1> QED  BY <1>3, <1>4, <1>5, <1>6 DEF ExactNext, Ended

\* Whatever the controller, the games, the caps and the failures: a recovery
\* never completes more jobs than offline_maximum finds possible
\* knowing who failed, and what exact_solver certifies at first is possible
\* whichever identities fail, as many as allowed.
THEOREM OfflineAlways == ASSUME ExactAssumption PROVE ExactSpec => []WithinOffline
<1>1. ExactInit => OfflineInv
  BY OfflineInit
<1>2. OfflineInv /\ [ExactNext]_exactVars => OfflineInv'
  BY OfflineStep
<1>3. OfflineInv => WithinOffline
  <2> SUFFICES ASSUME OfflineInv PROVE WithinOffline
    OBVIOUS
  <2>1. /\ PlayTyped /\ FallenSpent /\ RootIs /\ game \in Games /\ fallen \in SUBSET Identities
        /\ unused \in SUBSET Identities
    BY DEF OfflineInv, PlayTyped
  <2>2. Cardinality(Completed) <= OfflineMaximum(game, fallen)
    <3>1. PICK served : ServedBy(served)
      BY DEF OfflineInv
    <3>2. Provides(game, Identities \ fallen, served)
      <4>1. Provides(game, Identities \ (unused \cup fallen), served)
        BY <3>1 DEF ServedBy
      <4>2. served \in [Jobs -> SUBSET (Identities \ (unused \cup fallen))]
        BY <4>1 DEF Provides
      <4>3. served \in [Jobs -> SUBSET (Identities \ fallen)]
        BY <4>2
      <4> QED  BY <4>1, <4>3 DEF Provides
    <3>3. Completed \in SUBSET Jobs
      BY DEF Completed
    <3>4. ASSUME NEW j \in Completed PROVE game.need[j] <= Cardinality(served[j])
      <4>1. passes[j] <= Cardinality(served[j]) /\ passes[j] >= game.need[j]
        BY <3>1 DEF ServedBy, Completed
      <4>2. passes[j] \in Nat /\ game.need[j] \in Nat
        BY <2>1, <3>3, CountFacts, GameFacts DEF PlayTyped
      <4>3. Cardinality(served[j]) \in Nat
        <5>1. served[j] \in SUBSET Identities
          BY <3>2, <3>3 DEF Provides
        <5> QED  BY <5>1, IdentitiesAssumption, FS_Subset, FS_CardinalityType
      <4> QED  BY <4>1, <4>2, <4>3
    <3> QED  BY <2>1, <3>2, <3>3, <3>4, OfflineReaches
  <2>3. ASSUME at = "play", NEW failing \in SUBSET Identities, Cardinality(failing) <= game.allowance
        PROVE  rootValue <= OfflineMaximum(game, failing)
    <3>1. CASE rootValue = Unknown
      <4> DEFINE most == OfflineMaximum(game, failing)
      <4>1. most \in Nat
        BY OfflineIsNumber
      <4> HIDE DEF most
      <4>2. rootValue <= most
        BY <3>1, <4>1 DEF Unknown
      <4> QED  BY <4>2 DEF most
    <3>2. CASE rootValue # Unknown
      <4>1. rootValue = RootOf(game)
        BY <2>1, <2>3, <3>2 DEF RootIs
      <4>2. RootOf(game) <= OfflineMaximum(game, failing)
        BY <2>1, <2>3, CertifiedIsPossible
      <4> QED  BY <4>1, <4>2
    <3> QED  BY <3>1, <3>2
  <2> QED  BY <2>2, <2>3 DEF WithinOffline
<1> QED  BY <1>1, <1>2, <1>3, PTL DEF ExactSpec

\* All that is checked of the planners, for every set of games and caps.
THEOREM ExactAlways == ASSUME ExactAssumption PROVE ExactSpec => []ExactSound
<1>1. PromiseHeld /\ CertificateKept /\ WithinOffline /\ CoversAreWorth /\ MatchingIsMaximum /\ AuditAgrees => ExactSound
  BY DEF ExactSound
<1> QED  BY <1>1, PromisesAlways, CertificatesAlways, OfflineAlways, CoversAlways, MatchingsAlways, AuditAlways, PTL
===============================================================================
