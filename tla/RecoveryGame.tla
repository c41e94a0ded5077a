----------------------------- MODULE RecoveryGame -----------------------------
(***************************************************************************)
(* The recovery game of sevc/committee/recovery_game.py: identities that   *)
(* can serve one report each, jobs that need a number of PASS reports, and *)
(* an adversary that fails assigned identities.  This module holds what    *)
(* every policy shares: the game, the public state and one played round.   *)
(* A policy module extends it and says which assignments a round makes.    *)
(*                                                                         *)
(* An identity or a job is its index in the code's tuples, so that ties    *)
(* are broken in the code's order.  A bit mask is the set of its bits.     *)
(***************************************************************************)
EXTENDS Integers, FiniteSets

CONSTANTS
  Identities,   (* indices of the registered identities                    *)
  Jobs,         (* indices of the jobs                                     *)
  Games         (* the games a behaviour may start from                    *)

ASSUME IdentitiesAssumption == Identities \subseteq Nat /\ IsFiniteSet(Identities)
ASSUME JobsAssumption == Jobs \subseteq Nat /\ IsFiniteSet(Jobs) /\ Jobs # {}

(* Game.__post_init__ rejects every other value.                           *)
ASSUME GamesAssumption ==
  Games \subseteq [compat: [Identities -> SUBSET Jobs],
                   need: [Jobs -> Nat \ {0}],
                   allowance: Nat]

VARIABLES
  game,      (* the registered game; no step changes it                    *)
  unused,    (* PublicState.unused                                         *)
  passes,    (* PublicState.passes                                         *)
  failures,  (* PublicState.failures                                       *)
  attempts,  (* PublicState.attempts                                       *)
  rounds     (* PublicState.rounds                                         *)

publicState == <<unused, passes, failures, attempts, rounds>>

PublicTypeOK ==
  /\ game \in Games
  /\ unused \in SUBSET Identities
  /\ passes \in [Jobs -> Nat]
  /\ failures \in Nat
  /\ attempts \in [Jobs -> Nat]
  /\ rounds \in Nat

PublicInit ==
  /\ game \in Games
  /\ unused = Identities
  /\ passes = [j \in Jobs |-> 0]
  /\ failures = 0
  /\ attempts = [j \in Jobs |-> 0]
  /\ rounds = 0

UnresolvedOneEarly == {j \in Jobs : passes[j] + 1 < game.need[j]}
Unresolved == {j \in Jobs : passes[j] < game.need[j]}
Completed == {j \in Jobs : passes[j] >= game.need[j]}
Deficit(j) == game.need[j] - passes[j]

InScope == failures <= game.allowance
RemainingLessOne == IF failures < game.allowance THEN game.allowance - failures - 1 ELSE 0
Remaining == IF InScope THEN game.allowance - failures ELSE 0

Compatible(j) == {i \in Identities : j \in game.compat[i]}
Coverage(mask, j) == Cardinality(mask \cap Compatible(j))

(* A plan gives each job the identities it is assigned this round.         *)
Plans == [Jobs -> SUBSET Identities]
NoPlan == [j \in Jobs |-> {}]
Assigned(plan) == UNION {plan[j] : j \in Jobs}
AssignedTo(plan, J) == UNION {plan[j] : j \in J}

(* The outcomes the adversaries can return: any set of assigned identities *)
(* fails.  `budget' bounds the identities failed over the whole game.      *)
Outcomes(plan, budget) ==
  {failed \in SUBSET Assigned(plan) : failures + Cardinality(failed) <= budget}

(* The loop body of simulate after the policy has chosen: every assigned   *)
(* identity is spent, a PASS counts up to the job's need, anything else is *)
(* a failure.                                                              *)
PlayRound(plan, failed) ==
  /\ unused' = unused \ Assigned(plan)
  /\ passes' = [j \in Jobs |->
       LET passed == passes[j] + Cardinality(plan[j] \ failed)
       IN  IF passed <= game.need[j] THEN passed ELSE game.need[j]]
  /\ failures' = failures + Cardinality(failed)
  /\ attempts' = [j \in Jobs |-> attempts[j] + Cardinality(plan[j])]
  /\ rounds' = rounds + 1
  /\ game' = game
===============================================================================
