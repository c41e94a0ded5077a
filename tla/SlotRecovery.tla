------------------------------ MODULE SlotRecovery ------------------------------
(***************************************************************************)
(* The failure simulation of the evaluation: a trace says which members of *)
(* a population respond, and each task of it asks the members of its       *)
(* roster in order, the first `initial' at once and, for full SEVC, one    *)
(* replacement after another while the threshold is not met.               *)
(*                                                                         *)
(* Every task is evaluated twice, without and then with the capacity the   *)
(* members have left; what the second spends is gone for later tasks.      *)
(***************************************************************************)
EXTENDS Integers, Sequences, FiniteSets, SequencesExt, FiniteSetsExt, Combinatorics

CONSTANTS
  Members,     (* the population                                           *)
  TaskOrders,  (* per trace: the order of the members for each task        *)
  MaximumSlots, (* of a roster                                             *)
  Dropouts,    (* probabilities of a member not to respond                 *)
  Contracts,   (* [method, initial, threshold, budget] registered          *)
  ReserveBudgets, (* of the variants of full SEVC                          *)
  Capacities,  (* executions a member has in one trace                     *)
  FalseNegatives, (* what the source of the trace missed                   *)
  Unit         (* probabilities are claimed in parts of Unit               *)

(* The registered methods, and full SEVC with every other reserve: all on  *)
(* the same responses and rosters.                                         *)
Evaluated ==
  Contracts \cup {[c EXCEPT !.budget = budget] :
                    c \in {c \in Contracts : c.method = "full-sevc"}, budget \in ReserveBudgets}

SlotAssumption ==
  /\ IsFiniteSet(Members) /\ Dropouts \subseteq 0..Unit /\ Capacities \subseteq Nat /\ FalseNegatives \subseteq Nat
  /\ Unit \in Nat \ {0}
  /\ \A c \in Contracts : c.threshold \in 0..c.initial /\ c.initial \in Nat /\ c.budget \in Nat
  /\ MaximumSlots \in 0..Cardinality(Members)
  /\ ReserveBudgets \subseteq Nat
  /\ \A c \in Evaluated : MaximumSlots >= c.initial + c.budget
  /\ \A orders \in TaskOrders : \A t \in DOMAIN orders :
       /\ IsInjective(orders[t]) /\ Range(orders[t]) = Members

VARIABLES
  contract, capacity, missed, (* of the method, the members, the source    *)
  dropout,    (* of the members of this trace                              *)
  responses,  (* the members that respond in it                            *)
  rosters,    (* the roster of each task                                   *)
  usage,      (* executions each member has spent                          *)
  task,       (* the task being evaluated                                  *)
  capped,     (* with capacity, or its twin without                        *)
  attempts,   (* of the evaluation at hand, oldest first                   *)
  twin,       (* the attempts of the task without capacity                 *)
  rows        (* per finished task: [attempts, twin]                       *)
registered == <<contract, capacity, missed, dropout, responses, rosters>>
vars == <<registered, usage, task, capped, attempts, twin, rows>>

(* Certain members all respond or none does; the others do as it happens,  *)
(* together or each for itself.                                            *)
AvailabilityTrace ==
  CASE dropout = Unit -> {{}}
    [] dropout = 0 -> {Members}
    [] OTHER -> SUBSET Members

TaskRosters(orders) == [t \in DOMAIN orders |-> SubSeq(orders[t], 1, MaximumSlots)]

-------------------------------------------------------------------------------
(* One task                                                                *)

Routes == {"nonresponsive-commissioned", "capacity-rejected", "successful-commissioned"}
ByRoute(tried, route) == {k \in DOMAIN tried : tried[k].route = route}
Successful(tried) == Cardinality(ByRoute(tried, "successful-commissioned"))
Nonresponsive(tried) == Cardinality(ByRoute(tried, "nonresponsive-commissioned"))
Rejected(tried) == Cardinality(ByRoute(tried, "capacity-rejected"))
Commissioned(tried) == Len(tried) - Rejected(tried)
Recovered(tried) ==
  Cardinality({k \in ByRoute(tried, "successful-commissioned") : tried[k].replacement})

\* Mutant: a member is asked once more when its capacity is spent.
AttemptSlotOnceMore(member, used, capacityHeld) ==
  IF member \notin responses THEN "nonresponsive-commissioned"
  ELSE IF capacityHeld /\ used[member] > capacity THEN "capacity-rejected"
  ELSE "successful-commissioned"

AttemptSlot(member, used, capacityHeld) ==
  IF member \notin responses THEN "nonresponsive-commissioned"
  ELSE IF capacityHeld /\ used[member] >= capacity THEN "capacity-rejected"
  ELSE "successful-commissioned"

(* The next slot of the roster is asked: an initial one always, a          *)
(* replacement only by full SEVC, within its budget and short of the       *)
(* threshold.                                                              *)
Asked(tried) ==
  \/ Len(tried) < contract.initial
  \/ /\ contract.method = "full-sevc"
     /\ Len(tried) < contract.initial + contract.budget
     /\ Successful(tried) < contract.threshold

Complete(tried) == Successful(tried) >= contract.threshold

Attempt ==
  /\ task <= Len(rosters) /\ Asked(attempts)
  /\ LET member == rosters[task][Len(attempts) + 1]
         route == AttemptSlot(member, usage, capped)
     IN /\ attempts' = Append(attempts, [member |-> member, route |-> route,
                                         replacement |-> Len(attempts) >= contract.initial])
        /\ usage' = IF capped /\ route = "successful-commissioned"
                    THEN [usage EXCEPT ![member] = @ + 1] ELSE usage
  /\ UNCHANGED <<registered, task, capped, twin, rows>>

EndUncapacitated ==
  /\ task <= Len(rosters) /\ ~Asked(attempts) /\ ~capped
  /\ twin' = attempts /\ attempts' = <<>> /\ capped' = TRUE
  /\ UNCHANGED <<registered, usage, task, rows>>

EndAdjusted ==
  /\ task <= Len(rosters) /\ ~Asked(attempts) /\ capped
  /\ rows' = Append(rows, [attempts |-> attempts, twin |-> twin])
  /\ task' = task + 1 /\ attempts' = <<>> /\ twin' = <<>> /\ capped' = FALSE
  /\ UNCHANGED <<registered, usage>>

(* The trace is reported once its last task is evaluated.                  *)
Reported == task > Len(rosters) /\ UNCHANGED vars

-------------------------------------------------------------------------------
(* The rows of the trace and its totals                                    *)

Route(row) ==
  IF Complete(row.attempts)
  THEN IF Recovered(row.attempts) > 0 THEN "complete-after-recovery" ELSE "complete-without-recovery"
  ELSE IF contract.method = "full-sevc" THEN "safe-defer" ELSE "terminate-or-restart"
CapacityRejection(row) == Complete(row.twin) /\ ~Complete(row.attempts)
BudgetRejection(row) == contract.method = "full-sevc" /\ ~Complete(row.twin)

Tasks(P(_)) == Cardinality({t \in DOMAIN rows : P(rows[t])})
Total(Of(_)) == FoldLeft(LAMBDA sum, row : sum + Of(row.attempts), 0, rows)

Aggregate ==
  [completed |-> Tasks(LAMBDA row : Complete(row.attempts)),
   uncapacitated |-> Tasks(LAMBDA row : Complete(row.twin)),
   afterRecovery |-> Tasks(LAMBDA row : Complete(row.attempts) /\ Recovered(row.attempts) > 0),
   deferred |-> IF contract.method = "full-sevc" THEN Tasks(LAMBDA row : ~Complete(row.attempts)) ELSE 0,
   terminated |-> IF contract.method \in {"vanilla", "depol", "refiner"}
                  THEN Tasks(LAMBDA row : ~Complete(row.attempts)) ELSE 0,
   capacityRejections |-> Tasks(CapacityRejection), budgetRejections |-> Tasks(BudgetRejection),
   unsafe |-> IF missed > 0 THEN Tasks(LAMBDA row : Complete(row.attempts)) ELSE 0,
   owner |-> IF contract.method = "owner-only" THEN Len(rows) ELSE 0,
   successful |-> Total(Successful), commissioned |-> Total(Commissioned),
   nonresponsive |-> Total(Nonresponsive), rejected |-> Total(Rejected),
   recovered |-> Total(Recovered)]

(* The nested rows are counted again by their routes; a difference raises. *)
Routed(route) == Tasks(LAMBDA row : Route(row) = route)
NestedDrift ==
  LET a == Aggregate
  IN \/ a.completed # Routed("complete-after-recovery") + Routed("complete-without-recovery")
     \/ a.afterRecovery # Routed("complete-after-recovery")
     \/ a.deferred # Routed("safe-defer")
     \/ a.terminated # Routed("terminate-or-restart")

-------------------------------------------------------------------------------
(* The reliability a method claims, in parts of Unit to the number of      *)
(* slots it may ask                                                        *)

(* As the source's power: anything to the zero is 1.                      *)
Power(base, n) == IF n = 0 THEN 1 ELSE base^n
BinomialTail(size, threshold, p) ==
  FoldSet(LAMBDA k, sum : sum + choose(size, k) * Power(p, k) * Power(Unit - p, size - k), 0, threshold..size)

ClaimedReserveReliability(initial, budget, p) ==
  FoldSet(LAMBDA k, sum : sum + choose(initial, k) * Power(p, k) * Power(Unit - p, initial - k)
                                  * BinomialTail(budget, initial - k, p),
          0, {k \in 0..initial : initial - k <= budget})

ClaimedReliability(p) ==
  CASE contract.method = "owner-only" -> 1
    [] contract.method = "vanilla" -> p
    [] contract.method \in {"depol", "refiner"} -> BinomialTail(contract.initial, contract.threshold, p)
    [] contract.method = "full-sevc" -> ClaimedReserveReliability(contract.initial, contract.budget, p)

(* The probability claimed of a member, off by the bias.                   *)
ClaimedProbability(bias) == Max({0, Min({Unit, Unit - dropout + bias})})

(* The Brier score of a claim over the tasks, in parts of the square of a  *)
(* certain claim.                                                          *)
BrierScore(bias) ==
  LET claim == ClaimedReliability(ClaimedProbability(bias))
      certain == ClaimedReliability(Unit)
  IN Aggregate.completed * Power(certain - claim, 2) + (Len(rows) - Aggregate.completed) * Power(claim, 2)

-------------------------------------------------------------------------------
Init ==
  /\ contract \in Evaluated /\ capacity \in Capacities /\ missed \in FalseNegatives
  /\ dropout \in Dropouts /\ responses \in AvailabilityTrace
  /\ \E orders \in TaskOrders : rosters = TaskRosters(orders)
  /\ usage = [m \in Members |-> 0] /\ task = 1 /\ capped = FALSE
  /\ attempts = <<>> /\ twin = <<>> /\ rows = <<>>
Next == Attempt \/ EndUncapacitated \/ EndAdjusted \/ Reported
Spec == Init /\ [][Next]_vars

-------------------------------------------------------------------------------
(* Properties                                                              *)

(* Executions of a member in the tasks before t, the current one included  *)
(* when t is past the last row.                                            *)
Spent(m, t) ==
  Cardinality({<<r, k>> \in UNION {{r} \X ByRoute(rows[r].attempts, "successful-commissioned") :
                                      r \in {r \in DOMAIN rows : r < t}} :
                 rows[r].attempts[k].member = m})
Spending(m) ==
  IF capped THEN Cardinality({k \in ByRoute(attempts, "successful-commissioned") :
                                attempts[k].member = m}) ELSE 0

(* Capacity is shared by the tasks of a trace and by nothing else: the     *)
(* twins spend none, and a member is turned away only when earlier tasks   *)
(* have spent all of its capacity.                                         *)
CapacityShared ==
  /\ \A m \in Members : usage[m] = Spent(m, task) + Spending(m) /\ usage[m] <= capacity
  /\ \A t \in DOMAIN rows : \A k \in ByRoute(rows[t].attempts, "capacity-rejected") :
       Spent(rows[t].attempts[k].member, t) = capacity
  /\ \A t \in DOMAIN rows : Rejected(rows[t].twin) = 0

(* Stopping at the threshold loses nothing: without capacity a task        *)
(* completes exactly when enough members of the slots it may ask respond.  *)
Slots == contract.initial + (IF contract.method = "full-sevc" THEN contract.budget ELSE 0)
Responding(t) == {k \in 1..Slots : rosters[t][k] \in responses}
CompletesWhenAble ==
  \A t \in DOMAIN rows :
    /\ Complete(rows[t].twin) <=> Cardinality(Responding(t)) >= contract.threshold
    /\ Recovered(rows[t].twin) <= Max({0, contract.threshold
                                          - Cardinality(Responding(t) \cap 1..contract.initial)})

(* Capacity only takes away, and what it took away shows: every deferral   *)
(* is either a rejection of the capacity, of a task that met one, or of    *)
(* the replacement budget, and the two do not overlap.                     *)
DeferralsExplained ==
  /\ \A t \in DOMAIN rows :
       /\ Complete(rows[t].attempts) => Complete(rows[t].twin)
       /\ CapacityRejection(rows[t]) => Rejected(rows[t].attempts) > 0
  /\ contract.method = "full-sevc" =>
       Aggregate.deferred = Aggregate.capacityRejections + Aggregate.budgetRejections
  /\ ~NestedDrift

(* What a method claims is exact for members that respond independently:   *)
(* the weight of the patterns of responses with which its task completes;  *)
(* so the unbiased claim about certain members is scored perfect unless    *)
(* capacity turned a task away.                                            *)
ClaimsExact ==
  /\ rows = <<>> /\ attempts = <<>> /\ ~capped /\ contract.method # "owner-only" =>
      \A p \in 0..Unit :
        ClaimedReliability(p) =
          FoldSet(LAMBDA S, sum : sum + Power(p, Cardinality(S)) * Power(Unit - p, Slots - Cardinality(S)),
                  0, {S \in SUBSET (1..Slots) : Cardinality(S) >= contract.threshold})
  /\ (task > Len(rosters) /\ dropout \in {0, Unit} /\ Aggregate.capacityRejections = 0) =>
       BrierScore(0) = 0

(* The simulation of a trace counts what its members did.                  *)
SlotsAccounted == CapacityShared /\ CompletesWhenAble /\ DeferralsExplained /\ ClaimsExact
===============================================================================
