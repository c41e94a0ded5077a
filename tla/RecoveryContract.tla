---------------------------- MODULE RecoveryContract ----------------------------
(***************************************************************************)
(* What execute_recovery promises about the identities it pays for, with   *)
(* no word on which controller picks them, in what waves or on how many    *)
(* lanes: identities are hired within the budget, for one job each; they   *)
(* settle once; a job is decided once, on Quorum passing identities hired  *)
(* for it; and the call ends with nobody unsettled and every undecided job *)
(* deferred, unless it raises.                                             *)
(***************************************************************************)
EXTENDS Integers, FiniteSets

CONSTANTS Verifiers, Jobs, Quorum

VARIABLES
  terms,    (* budget and conflicts of the call                            *)
  hired,    (* hired[j]: the identities hired for job j                    *)
  outcome,  (* what each identity settled to                               *)
  decision, (* decision[j]: route and committee of job j                   *)
  open      (* the call has not ended                                      *)

vars == <<terms, hired, outcome, decision, open>>

Statuses == {"PASS", "FAIL_CONFIRMED", "DROPOUT"}
Unsettled == "unsettled"
Undecided == [route |-> "open", committee |-> {}]
Deferred == [route |-> "safe-defer", committee |-> {}]
Hired == UNION {hired[j] : j \in Jobs}

Init ==
  /\ terms \in [prepaid: Nat, reserve: Nat, cap: Nat, conflicts: SUBSET (Verifiers \X Jobs)]
  /\ hired = [j \in Jobs |-> {}]
  /\ outcome = [v \in Verifiers |-> Unsettled]
  /\ \/ open = TRUE /\ decision = [j \in Jobs |-> Undecided]
     \/ open = FALSE /\ decision = [j \in Jobs |-> Deferred]

Hire(v, j) ==
  /\ open /\ v \notin Hired /\ <<v, j>> \notin terms.conflicts
  /\ terms.prepaid + terms.reserve * (Cardinality(hired[j]) + 1) <= terms.cap
  /\ hired' = [hired EXCEPT ![j] = @ \cup {v}]
  /\ UNCHANGED <<terms, outcome, decision, open>>

Settle ==
  /\ open
  /\ \A v \in Verifiers :
       \/ outcome'[v] = outcome[v]
       \/ v \in Hired /\ outcome[v] = Unsettled /\ outcome'[v] \in Statuses
  /\ outcome' \in [Verifiers -> Statuses \cup {Unsettled}]
  /\ UNCHANGED <<terms, hired, decision, open>>

Decide(j, route, committee) ==
  /\ open /\ decision[j] = Undecided
  /\ \A v \in committee : outcome[v] = "PASS"
  /\ Cardinality(committee) = Quorum
  /\ decision' = [decision EXCEPT ![j] = [route |-> route, committee |-> committee]]
  /\ UNCHANGED <<terms, hired, outcome, open>>

Close ==
  /\ open /\ open' = FALSE
  /\ \A v \in Hired : outcome[v] # Unsettled
  /\ decision' = [j \in Jobs |-> IF decision[j] = Undecided THEN Deferred ELSE decision[j]]
  /\ UNCHANGED <<terms, hired, outcome>>

Raise == open /\ open' = FALSE /\ UNCHANGED <<terms, hired, outcome, decision>>

Next ==
  \/ \E v \in Verifiers, j \in Jobs : Hire(v, j)
  \/ Settle
  \/ \E j \in Jobs, route \in {"accept", "reject"} : \E committee \in SUBSET hired[j] :
       Decide(j, route, committee)
  \/ Close
  \/ Raise

Spec == Init /\ [][Next]_vars
===============================================================================
