----------------------------- MODULE ReserveEscrow -----------------------------
(***************************************************************************)
(* The settlement-aware escrow of verifier_reserve_recovery.py.  For each  *)
(* job the owner locks the retainers of the reserves, then issues a wave,  *)
(* waits for its settlement, tries to reconstitute a committee from the    *)
(* reports that passed, and asks the policy whether another wave of        *)
(* reserves may be issued: the budget-aware policies refuse one that would *)
(* exceed the hard cap, the settlement-aware one counting what expired     *)
(* fees released.                                                          *)
(*                                                                         *)
(* The functions are a library: what calls them is not in the repository.  *)
(* Next is the order their own checks impose, job after job (a decision    *)
(* before the settlement raises, and here would leave Next disabled), and  *)
(* Excluded is what the invariant counts take for unavailable.  Amounts    *)
(* are whole numbers; an assignment is the job in hand and a verifier.     *)
(***************************************************************************)
EXTENDS ReserveRoster

CONSTANT Setups

VARIABLES
  setup,      (* the locked public terms; no step changes them             *)
  order,      (* the roster's identities                                   *)
  job,        (* the job in hand, one past the last at the end             *)
  stage,      (* what its recovery waits for                               *)
  wave,       (* the wave to issue, or to settle                           *)
  ledger,     (* the escrow of the job in hand                             *)
  committed,  (* what the tail-aware policy has committed for it           *)
  waves,      (* every wave issued                                         *)
  status,     (* status[j][v]: how v's assignment to j settled             *)
  results,    (* every reconstitution of a job                             *)
  transfers   (* the transfer records of the jobs closed                   *)
vars == <<setup, order, job, stage, wave, ledger, committed, waves, status, results,
          transfers>>

Policies == {"prefix", "rtr", "sare"}
FinalStatuses == {"PASS", "FAIL_CONFIRMED", "DROPOUT"}
Statuses == FinalStatuses \cup {"TECHNICAL_FAILURE", "none"}
Stages == {"lock", "issue", "settle", "reconstitute", "decide", "close", "raised", "done"}

-------------------------------------------------------------------------------
(* The terms                                                               *)

Offers == setup.offers
TermJobs == DOMAIN setup.committees
Offered == DOMAIN Offers
FeeOf == [v \in Offered |-> Offers[v].fee]
UnitCost == setup.sentinel + setup.adjudication
Primary == IF job \in TermJobs THEN ToSet(setup.committees[job]) ELSE {}
Fees(S) == Total(FeeOf, S)
Retainers(S) == Cardinality(S) * setup.retainer
TailAware == setup.policy # "prefix"
HardCap(j) == setup.multiplier * (Fees(ToSet(setup.committees[j]))
                                    + Len(setup.committees[j]) * UnitCost)

TermsValid(s) == s.retainer <= s.activeFee /\ s.availabilityBond <= s.activeBond

(* build_registered_reserve_roster                                         *)
RosterOf(s) ==
  LET primary == PrimaryMembers(s.committees)
  IN  IF s.policy = "prefix" THEN PrefixRoster(s.offers, s.cap)
      ELSE RobustRoster(s.offers, primary, s.cap, s.removal, s.retainer)
SetupRefused(s) ==
  LET primary == PrimaryMembers(s.committees)
  IN  \/ ~TermsValid(s)
      \/ IF s.policy = "prefix" THEN PrefixRosterRefused(s.offers, primary, s.cap, s.batch)
         ELSE RosterRefused(s.offers, primary, s.cap, s.batch, s.removal)

(* Terms as the library's types allow them: committees of offered          *)
(* identities, amounts that are not negative, a roster drawn from offers.  *)
ASSUME TermsAssumption ==
  \A s \in Setups :
    /\ s.policy \in Policies /\ s.outcomes \subseteq Statuses \ {"none"}
    /\ IsFiniteSet(DOMAIN s.offers) /\ \A v \in DOMAIN s.offers : s.offers[v].fee \in Nat
    /\ {s.retainer, s.sentinel, s.adjudication, s.multiplier, s.batch} \subseteq Nat
    /\ s.committees \in Seq(Seq(DOMAIN s.offers) \ {<<>>}) \ {<<>>}
    /\ ~SetupRefused(s) => RosterOf(s) \in Seq(DOMAIN s.offers)

-------------------------------------------------------------------------------
(* The ledger                                                              *)

CurrentExposure(l) == l.irreversible + l.paid + l.feeEscrow + l.retainerEscrow

Amounts(l) == {l.gross, l.legacy, l.expired, l.irreversible, l.paid, l.feeEscrow,
               l.retainerEscrow, l.reclassified, l.peak, l.expenditure}
Validated(l) ==
  /\ \A amount \in Amounts(l) : amount >= 0
  /\ l.settledIds \subseteq l.issuedIds
  /\ l.paidIds \cap l.expiredIds = {} /\ l.paidIds \cup l.expiredIds = l.settledIds
  /\ CurrentExposure(l) = l.expenditure
  /\ l.peak >= CurrentExposure(l)

Initialized(retainer) ==
  [gross |-> retainer, legacy |-> retainer, expired |-> 0, irreversible |-> 0, paid |-> 0,
   feeEscrow |-> 0, retainerEscrow |-> retainer, reclassified |-> 0, peak |-> retainer,
   expenditure |-> retainer, issuedIds |-> {}, settledIds |-> {}, expiredIds |-> {},
   paidIds |-> {}]

\* Mutant: the retainer that became part of a fee is not counted.
IssuedUnclassified(l, members, fees, costs, conversion) ==
  LET exposure == CurrentExposure(l) - conversion + fees + costs
  IN  [l EXCEPT !.gross = @ + fees + costs,
                !.legacy = @ + fees + costs - conversion,
                !.irreversible = @ + costs,
                !.feeEscrow = @ + fees,
                !.retainerEscrow = @ - conversion,
                !.peak = Max({@, exposure}),
                !.expenditure = exposure,
                !.issuedIds = @ \cup members]

(* fees, costs, conversion: the service fees of the wave, what it costs    *)
(* for good, and the retainers its members held.                           *)
Issued(l, members, fees, costs, conversion) ==
  LET exposure == CurrentExposure(l) - conversion + fees + costs
  IN  [l EXCEPT !.gross = @ + fees + costs,
                !.legacy = @ + fees + costs - conversion,
                !.irreversible = @ + costs,
                !.feeEscrow = @ + fees,
                !.retainerEscrow = @ - conversion,
                !.reclassified = @ + conversion,
                !.peak = Max({@, exposure}),
                !.expenditure = exposure,
                !.issuedIds = @ \cup members]
IssueRaises(l, members, fees, costs, conversion) ==
  \/ ~Validated(l) \/ members \cap l.issuedIds # {}
  \/ conversion > l.retainerEscrow
  \/ ~Validated(Issued(l, members, fees, costs, conversion))

Settled(l, paidIds, expiredIds, paidFees, expiredFees) ==
  [l EXCEPT !.expired = @ + expiredFees,
            !.paid = @ + paidFees,
            !.feeEscrow = @ - (paidFees + expiredFees),
            !.expenditure = CurrentExposure(l) - expiredFees,
            !.settledIds = @ \cup paidIds \cup expiredIds,
            !.expiredIds = @ \cup expiredIds,
            !.paidIds = @ \cup paidIds]
SettleRaises(l, paidIds, expiredIds, paidFees, expiredFees) ==
  LET members == paidIds \cup expiredIds
  IN  \/ ~Validated(l) \/ ~(members \subseteq l.issuedIds) \/ members \cap l.settledIds # {}
      \/ paidFees + expiredFees > l.feeEscrow
      \/ ~Validated(Settled(l, paidIds, expiredIds, paidFees, expiredFees))

-------------------------------------------------------------------------------
(* The next wave                                                           *)

Activated(j) == UNION {ToSet(w.members) : w \in {u \in ToSet(waves) : u.job = j}}
WaveIndex == Cardinality({k \in DOMAIN waves : waves[k].job = job})

(* What a caller reports unavailable: conflicts, and, when the roster is   *)
(* shared by several jobs, identities without capacity left.               *)
PrimaryReservations(v) == Cardinality({j \in TermJobs : v \in ToSet(setup.committees[j])})
ReserveUses(v) ==
  Cardinality({k \in DOMAIN waves : waves[k].role = "reserve" /\ v \in ToSet(waves[k].members)})
AtCapacity(v) == PrimaryReservations(v) + ReserveUses(v) >= Offers[v].capacity
Excluded ==
  {v \in Offered : job \in Offers[v].conflicts \/ (setup.capacityAware /\ AtCapacity(v))}

Candidates == NextReserveBatch(order, Primary, setup.batch, Activated(job), Excluded)

FullReservation(members) == Fees(members) + Cardinality(members) * UnitCost
NetReservation(members) == FullReservation(members) - Retainers(members)

\* Mutant: the wave itself is left out of what it is compared with.
DecisionBeforehand(candidates, before, hardCap) ==
  IF candidates = <<>> THEN "ABSTAIN_RESERVE_EXHAUSTED"
  ELSE IF before > hardCap THEN "ABSTAIN_TAIL_BUDGET_EXHAUSTED" ELSE "ACTIVATE"

(* Both budget-aware policies decide from an expenditure before the wave.  *)
Decision(candidates, before, hardCap) ==
  LET after == before + NetReservation(ToSet(candidates))
  IN  IF candidates = <<>> THEN "ABSTAIN_RESERVE_EXHAUSTED"
      ELSE IF after > hardCap THEN "ABSTAIN_TAIL_BUDGET_EXHAUSTED"
      ELSE "ACTIVATE"
TailAwareDecision == Decision(Candidates, committed, HardCap(job))
SettlementAwareDecision == Decision(Candidates, CurrentExposure(ledger), HardCap(job))
SettlementAwareRaises == ~Validated(ledger) \/ ledger.feeEscrow > 0

RegisteredDecision ==
  CASE setup.policy = "prefix" -> IF Candidates = <<>> THEN "ABSTAIN_RESERVE_EXHAUSTED"
                                  ELSE "ACTIVATE"
    [] setup.policy = "rtr" -> TailAwareDecision
    [] setup.policy = "sare" -> SettlementAwareDecision

(* The shared allocation of a wave; it refuses a conflict.                 *)
AllocationRaises(members) == members = {} \/ \E v \in members : job \in Offers[v].conflicts
CostOf == [v \in Offered |-> FeeOf[v] + UnitCost]
AllocationExpenditure(members) == Total(CostOf, members)

-------------------------------------------------------------------------------
(* Reconstitution and transfer records                                     *)

Ranked == IF setup.policy = "prefix" THEN ReputationOrder(Offers, ToSet(order)) ELSE order
Passed(j) == {v \in Offered : status[j][v] = "PASS"}
ReconstitutionOf(j) ==
  Reconstitution(Offers, Ranked, Activated(j), Passed(j), setup.targets[j])

TailBudgetAbstention(r) ==
  [r EXCEPT !.status = "ABSTAIN_TAIL_BUDGET_EXHAUSTED", !.members = <<>>, !.reliability = 0]

(* What the settlement of v's assignment paid and slashed.                 *)
PaidService(v) == IF status[job][v] = "PASS" THEN FeeOf[v] ELSE 0
SlashedService(v) == IF status[job][v] \in {"FAIL_CONFIRMED", "DROPOUT"} THEN Offers[v].bond ELSE 0

Record(v, kind, availability, activation, total, slashed) ==
  [job |-> job, verifier |-> v, kind |-> kind, availability |-> availability,
   activation |-> activation, total |-> total, slashed |-> slashed]

PrimaryRecord(v) ==
  Record(v, "PRIMARY_ACTIVE", 0, PaidService(v), PaidService(v), SlashedService(v))
\* Mutant: the retainer is paid on top of the fee.
ActiveReserveRecordOnTop(v) ==
  IF v \in setup.absent \/ status[job][v] = "DROPOUT"
  THEN Record(v, "RESERVE_ACTIVE_DROPOUT", 0, 0, 0, SlashedService(v))
  ELSE Record(v, "RESERVE_ACTIVE", setup.retainer, PaidService(v),
              setup.retainer + PaidService(v), SlashedService(v))

ActiveReserveRecord(v) ==
  LET dropped == v \in setup.absent \/ status[job][v] = "DROPOUT"
      credit == Min({setup.retainer, PaidService(v)})
  IN  IF dropped THEN Record(v, "RESERVE_ACTIVE_DROPOUT", 0, 0, 0, SlashedService(v))
      ELSE Record(v, "RESERVE_ACTIVE", credit, PaidService(v) - credit, PaidService(v),
                  SlashedService(v))
IdleReserveRecord(v) ==
  IF v \notin setup.absent
  THEN Record(v, "RESERVE_AVAILABLE", setup.retainer, 0, setup.retainer, 0)
  ELSE Record(v, "RESERVE_DROPOUT", 0, 0, 0, setup.availabilityBond)

TransferRecords ==
  {PrimaryRecord(v) : v \in Primary}
    \cup {ActiveReserveRecord(v) : v \in Activated(job) \ Primary}
    \cup {IdleReserveRecord(v) : v \in ToSet(order) \ (Activated(job) \cup Primary)}
RecordsConserve(records) == \A r \in records : r.availability + r.activation = r.total

-------------------------------------------------------------------------------
(* The run of a job                                                        *)

Unsettled == [v \in Offered |-> "none"]

Begin(s) ==
  /\ setup = s /\ order = RosterOf(s)
  /\ job = 1 /\ stage = "lock" /\ wave = [role |-> "primary", members |-> <<>>]
  /\ ledger = Initialized(0) /\ committed = 0
  /\ waves = <<>> /\ status = [j \in TermJobs |-> Unsettled]
  /\ results = {} /\ transfers = {}
Init == \E s \in Setups : ~SetupRefused(s) /\ Begin(s)

(* Locks the reserves' retainers and prepares the primary wave.            *)
Lock ==
  /\ stage = "lock"
  /\ ledger' = Initialized(Retainers(ToSet(order) \ Primary))
  /\ committed' = FullReservation(Primary) + Retainers(ToSet(order) \ Primary)
  /\ wave' = [role |-> "primary", members |-> setup.committees[job]]
  /\ stage' = "issue"
  /\ UNCHANGED <<setup, order, job, waves, status, results, transfers>>

Members == ToSet(wave.members)
Conversion == IF wave.role = "primary" THEN 0 ELSE Retainers(Members)
Issue ==
  LET fees == Fees(Members)
      costs == Cardinality(Members) * UnitCost
  IN  /\ stage = "issue"
      /\ IF AllocationRaises(Members) \/ IssueRaises(ledger, Members, fees, costs, Conversion)
         THEN stage' = "raised" /\ UNCHANGED <<ledger, waves>>
         ELSE /\ stage' = "settle"
              /\ ledger' = Issued(ledger, Members, fees, costs, Conversion)
              /\ waves' = Append(waves, [job |-> job, index |-> WaveIndex, role |-> wave.role,
                                         members |-> wave.members])
      /\ UNCHANGED <<setup, order, job, wave, committed, status, results, transfers>>

(* An absent identity drops out; the others pass, fail, or are left        *)
(* without a verdict, which the escrow refuses to settle.                  *)
OutcomesFor(v) == IF v \in setup.absent THEN {"DROPOUT"} ELSE setup.outcomes
Settle ==
  \E outcome \in {f \in [Members -> setup.outcomes \cup {"DROPOUT"}] :
                    \A v \in Members : f[v] \in OutcomesFor(v)} :
    LET paidIds == {v \in Members : outcome[v] = "PASS"}
        expiredIds == {v \in Members : outcome[v] \in {"FAIL_CONFIRMED", "DROPOUT"}}
    IN  /\ stage = "settle"
        /\ status' = [status EXCEPT ![job] = [v \in Offered |->
                        IF v \in Members THEN outcome[v] ELSE status[job][v]]]
        /\ IF \/ paidIds \cup expiredIds # Members
              \/ SettleRaises(ledger, paidIds, expiredIds, Fees(paidIds), Fees(expiredIds))
           THEN stage' = "raised" /\ UNCHANGED ledger
           ELSE /\ stage' = "reconstitute"
                /\ ledger' = Settled(ledger, paidIds, expiredIds, Fees(paidIds), Fees(expiredIds))
        /\ UNCHANGED <<setup, order, job, wave, committed, waves, results, transfers>>

Labelled(r) == [job |-> job, status |-> r.status, members |-> r.members,
                reliability |-> r.reliability]

Reconstitute ==
  LET result == ReconstitutionOf(job)
  IN  /\ stage = "reconstitute"
      /\ results' = results \cup {Labelled(result)}
      /\ stage' = IF result.status = "NEEDS_RESERVE" THEN "decide" ELSE "close"
      /\ UNCHANGED <<setup, order, job, wave, ledger, committed, waves, status, transfers>>

Activate ==
  /\ stage = "decide" /\ ~(setup.policy = "sare" /\ SettlementAwareRaises)
  /\ RegisteredDecision = "ACTIVATE"
  /\ wave' = [role |-> "reserve", members |-> Candidates]
  /\ committed' = committed + NetReservation(ToSet(Candidates))
  /\ stage' = "issue"
  /\ UNCHANGED <<setup, order, job, ledger, waves, status, results, transfers>>

Abstain ==
  /\ stage = "decide" /\ ~(setup.policy = "sare" /\ SettlementAwareRaises)
  /\ RegisteredDecision # "ACTIVATE"
  /\ results' = IF RegisteredDecision = "ABSTAIN_TAIL_BUDGET_EXHAUSTED"
                THEN results \cup {Labelled(TailBudgetAbstention(ReconstitutionOf(job)))}
                ELSE results
  /\ stage' = "close"
  /\ UNCHANGED <<setup, order, job, wave, ledger, committed, waves, status, transfers>>

Close ==
  /\ stage = "close"
  /\ transfers' = transfers \cup TransferRecords
  /\ IF RecordsConserve(TransferRecords)
     THEN job' = job + 1 /\ stage' = (IF job + 1 \in TermJobs THEN "lock" ELSE "done")
     ELSE stage' = "raised" /\ UNCHANGED job
  /\ UNCHANGED <<setup, order, wave, ledger, committed, waves, status, results>>

Stopped == stage \in {"done", "raised"} /\ UNCHANGED vars

Next == Lock \/ Issue \/ Settle \/ Reconstitute \/ Activate \/ Abstain \/ Close \/ Stopped
Spec == Init /\ [][Next]_vars

-------------------------------------------------------------------------------
(* Properties                                                              *)

InHand == stage \notin {"lock", "done"}
ReservesIssued == Activated(job) \ Primary
Allocated == [k \in DOMAIN waves |-> AllocationExpenditure(ToSet(waves[k].members))]

(* The ledger is what its history says: every retainer is locked until its *)
(* holder is activated, every fee until its assignment settles, and what   *)
(* was ever offered is still exposed, expired, or was turned from retainer *)
(* into fee.  The tail-aware commitment is the exposure nothing expired    *)
(* from, and the waves' allocations add up to the offers.                  *)
LedgerExplained ==
  InHand =>
    /\ ledger.issuedIds = Activated(job) /\ ledger.paidIds \subseteq Passed(job)
    /\ ledger.feeEscrow = Fees(ledger.issuedIds \ ledger.settledIds)
    /\ ledger.paid = Fees(ledger.paidIds) /\ ledger.expired = Fees(ledger.expiredIds)
    /\ ledger.irreversible = Cardinality(ledger.issuedIds) * UnitCost
    /\ ledger.retainerEscrow = Retainers(ToSet(order) \ (Primary \cup ReservesIssued))
    /\ ledger.reclassified = Retainers(ReservesIssued)
    /\ ledger.gross = CurrentExposure(ledger) + ledger.expired + ledger.reclassified
    /\ ledger.legacy = CurrentExposure(ledger) + ledger.expired
    /\ ledger.gross = Retainers(ToSet(order) \ Primary)
                        + Total(Allocated, {k \in DOMAIN waves : waves[k].job = job})

(* No check of the ledger, of an allocation or of a record ever fails on   *)
(* the way: recovery raises only when an assignment is left without a      *)
(* verdict, which the escrow will not settle, or when the terms assign a   *)
(* primary member to a job it declared a conflict with.                    *)
RaisesForCause ==
  stage = "raised" =>
    \/ \E v \in Activated(job) : status[job][v] = "TECHNICAL_FAILURE"
    \/ \E v \in Primary : job \in Offers[v].conflicts

(* The escrow is explained by its history, and stops only for a cause.     *)
EscrowAccounted == LedgerExplained /\ RaisesForCause

(* From the first wave of reserves a budget-aware policy issues, what the  *)
(* owner can still have to pay for the job never exceeds the hard cap; and *)
(* the settlement-aware policy never stops where the tail-aware one would  *)
(* have gone on with the same history.                                     *)
WithinHardCap ==
  (InHand /\ TailAware) =>
    /\ ReservesIssued # {} => CurrentExposure(ledger) <= HardCap(job)
    /\ (stage \in {"settle", "reconstitute", "decide", "close"}) => committed = ledger.legacy
    /\ (stage = "decide" /\ TailAwareDecision = "ACTIVATE") => SettlementAwareDecision = "ACTIVATE"

(* The transfers of a closed job pay each member of the roster once: the   *)
(* fees the ledger paid, and the retainer of every reserve that stayed     *)
(* available and was not activated.  An activated reserve's retainer is    *)
(* credited within its fee, and nobody is both paid and slashed.           *)
TransfersReconcile ==
  (stage \in {"lock", "done"} /\ job > 1) =>
    LET records == {r \in transfers : r.job = job - 1}
        idle == ToSet(order) \ (ToSet(setup.committees[job - 1]) \cup Activated(job - 1))
    IN  /\ {r.verifier : r \in records} = ToSet(order)
        /\ Cardinality(records) = Len(order)
        /\ SumOver(records, LAMBDA r : r.total)
             = ledger.paid + Retainers(idle \ setup.absent)
        /\ SumOver(records, LAMBDA r : r.total) + ledger.irreversible <= CurrentExposure(ledger)
        /\ \A r \in records : r.slashed = 0 \/ r.total = 0

(* recovery_invariant_counts and activation_capacity_violation_count       *)
Flattened(j) ==
  FlattenSeq([k \in DOMAIN waves |-> IF waves[k].job = j THEN waves[k].members ELSE <<>>])
DuplicateCount(j) == Len(Flattened(j)) - Cardinality(ToSet(Flattened(j)))
NonceReuseCount ==
  Len(waves) - Cardinality({<<w.job, w.index, w.members>> : w \in ToSet(waves)})
CapViolated(j) == Cardinality(ToSet(Flattened(j))) > setup.cap
ReservesOf(j) == SelectSeq(Flattened(j), LAMBDA v : v \notin ToSet(setup.committees[j]))

EarlierUses(v, j, n) ==
  SumOver(1..j, LAMBDA h : Cardinality({k \in DOMAIN ReservesOf(h) :
                                          ReservesOf(h)[k] = v /\ (h < j \/ k < n)}))
StillAvailable(j, n) ==
  SelectSeq(order, LAMBDA v :
    /\ v \notin ToSet(setup.committees[j]) \cup ToSet(SubSeq(ReservesOf(j), 1, n - 1))
    /\ PrimaryReservations(v) + EarlierUses(v, j, n) < Offers[v].capacity)
NonPrimary(j) == SelectSeq(order, LAMBDA v : v \notin ToSet(setup.committees[j]))
OutOfOrder(j) ==
  \/ Take(Flattened(j), Len(setup.committees[j])) # setup.committees[j]
  \/ IF setup.capacityAware
     THEN \E n \in DOMAIN ReservesOf(j) :
            Take(StillAvailable(j, n), setup.batch) # <<ReservesOf(j)[n]>>
     ELSE ReservesOf(j) # Take(NonPrimary(j), Len(ReservesOf(j)))
CapacityViolationCount ==
  SumOver(Offered, LAMBDA v :
    Max({0, SumOver(TermJobs, LAMBDA j : Cardinality({k \in DOMAIN Flattened(j) : Flattened(j)[k] = v}))
              - Offers[v].capacity}))

(* Each reserve was the first of the locked order that had capacity left.  *)
InLockedOrder(j) ==
  \A n \in DOMAIN ReservesOf(j) : Take(StillAvailable(j, n), 1) = <<ReservesOf(j)[n]>>

(* The order is counted without regard to conflicts.                       *)
CountsTakeOrder == \A v \in Offered : Offers[v].conflicts = {}
Begun == {j \in TermJobs : Flattened(j) # <<>>}

(* The count of the order compares a whole batch with one identity, so in  *)
(* waves of two out of shared capacity it accuses a wave that is in order  *)
(* whenever two could be activated.                                        *)
OrderAccused(j) ==
  /\ setup.capacityAware /\ setup.batch > 1
  /\ \E n \in DOMAIN ReservesOf(j) : Len(StillAvailable(j, n)) > 1

(* The counts the library publishes as evidence of a sound recovery are    *)
(* zero: nobody activated twice or out of the locked order, no nonce       *)
(* reused, no cap or capacity exceeded, and every committee made of        *)
(* reports that passed and meets its target.  The count of the order alone *)
(* is not: every recovery is in order, and the count says so of all but    *)
(* the accused.                                                            *)
CountsStayZero ==
  /\ NonceReuseCount = 0
  /\ \A j \in Begun : DuplicateCount(j) = 0 /\ ~CapViolated(j)
  /\ CountsTakeOrder => \A j \in Begun :
       /\ setup.capacityAware => InLockedOrder(j)
       /\ OutOfOrder(j) <=> OrderAccused(j)
  /\ setup.capacityAware => CapacityViolationCount = 0
  /\ \A r \in results : r.status = "RECONSTITUTED" =>
       /\ ToSet(r.members) \subseteq Passed(r.job)
       /\ r.reliability >= setup.targets[r.job]

(* What is published about a recovery is what happened: its transfers and  *)
(* the counts that are evidence of its soundness.                          *)
RecordsSound == TransfersReconcile /\ CountsStayZero
===============================================================================
