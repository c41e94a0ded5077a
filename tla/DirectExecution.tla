----------------------------- MODULE DirectExecution -----------------------------
(***************************************************************************)
(* The direct comparison of the evaluation: on every trace of a dataset    *)
(* each method decides about the trainer from the members of a roster that *)
(* respond and from what its source found; full SEVC is decided again with *)
(* every smaller reserve.  A dataset passes if full SEVC let nothing bad   *)
(* through where accepting without verification does.                      *)
(***************************************************************************)
EXTENDS Integers, Sequences, FiniteSets

CONSTANTS
  SystemStates,   (* sequence of [state, bad, failures, source]            *)
  TraceSeeds,     (* sequences of roster orders, one order per trace       *)
  SourceUnits,    (* [source state -> sequence of [method -> [TP, FN, FP]]]*)
  Responsive,     (* the members that respond when verifiers fail          *)
  BadStates,      (* the states in which a dataset is judged               *)
  ExpectedTraces, (* per state                                             *)
  DepolSize, DepolMajority, RefinerSize, RefinerMajority,
  InitialSlots,   (* of full SEVC: committees times their size             *)
  VariantBudgets, (* of its variants                                       *)
  FullBudget

(* The states a dataset is judged in are those whose trainer deviates; a   *)
(* state without units of its source raises.                               *)
Found == [TP : Nat, FN : Nat, FP : Nat]
DirectAssumption ==
  /\ ExpectedTraces \in Nat \ {0} /\ InitialSlots \in Nat
  /\ VariantBudgets \subseteq Nat /\ FullBudget \in VariantBudgets
  /\ DepolMajority \in 1..DepolSize /\ RefinerMajority \in 1..RefinerSize
  /\ SystemStates \in Seq([state : STRING, bad : BOOLEAN, failures : BOOLEAN, source : STRING])
  /\ \A s \in DOMAIN SystemStates : SystemStates[s].state \in BadStates => SystemStates[s].bad
  /\ TraceSeeds \subseteq Seq(Seq(Nat))
  /\ \A seeds \in TraceSeeds : \A t \in DOMAIN seeds : Len(seeds[t]) >= InitialSlots
  /\ \A units \in SourceUnits : \A s \in DOMAIN SystemStates :
       /\ SystemStates[s].source \in DOMAIN units
       /\ units[SystemStates[s].source] \in Seq([{"none", "ctiv", "refiner"} -> Found]) \ {<<>>}

VARIABLES
  registry,   (* the traces of the dataset                                 *)
  outcomes,   (* rows decided so far                                       *)
  variants,   (* rows of the reserve variants                              *)
  gate        (* whether the dataset passed, once judged                   *)
compared == <<registry, outcomes, variants, gate>>

(* One trace per state and seed, the states in turn; the source units of   *)
(* a state are dealt to its traces in turn, and the roster's members       *)
(* respond, or as their roles say in a state with failing verifiers.       *)
TraceRegistry(seeds, units) ==
  [i \in 1..(Len(SystemStates) * Len(seeds)) |->
    LET system == SystemStates[((i - 1) \div Len(seeds)) + 1]
        t == ((i - 1) % Len(seeds)) + 1
        available == units[system.source]
    IN [state |-> system.state, bad |-> system.bad,
        found |-> available[((t - 1) % Len(available)) + 1],
        roles |-> [k \in DOMAIN seeds[t] |-> system.failures => seeds[t][k] \in Responsive]]]

-------------------------------------------------------------------------------
(* Decisions                                                               *)

METHODS == <<"no-verification", "owner-only", "vanilla", "depol", "refiner", "full-sevc">>

(* A bad trainer is rejected only if everything bad was found.             *)
SignalOutcome(trace, source) ==
  LET found == trace.found[source]
  IN IF trace.bad
     THEN IF found.TP > 0 /\ found.FN = 0 THEN "reject" ELSE "accept"
     ELSE IF found.FP > 0 THEN "reject" ELSE "accept"

Responders(trace, first, last) ==
  Cardinality({k \in (first..last) \cap DOMAIN trace.roles : trace.roles[k]})

Decision(outcome, source, owner, executions, commissioned, recovered) ==
  [outcome |-> outcome, source |-> source, owner |-> owner, executions |-> executions,
   commissioned |-> commissioned, recovered |-> recovered]

(* A group is asked as a whole and decides if enough of it respond.        *)
GroupDecision(trace, source, size, needed) ==
  LET responsive == Responders(trace, 1, size)
  IN Decision(IF responsive < needed THEN "terminate" ELSE SignalOutcome(trace, source),
              source, 0, responsive, size, 0)

\* Mutant: the reserves of the whole roster replace whoever is missing.
ReserveVariantUnbudgeted(trace, budget) ==
  LET initial == Responders(trace, 1, InitialSlots)
      reserve == Responders(trace, InitialSlots + 1, Len(trace.roles))
      recovered == CHOOSE n \in {InitialSlots - initial, reserve} :
                     \A other \in {InitialSlots - initial, reserve} : n <= other
  IN Decision(IF initial + recovered < InitialSlots THEN "defer" ELSE SignalOutcome(trace, "ctiv"),
              "ctiv", 0, initial + recovered, InitialSlots + recovered, recovered)

(* Full SEVC replaces who is missing by responsive reserves, as far as the *)
(* budget goes, and defers if that is not far enough.                      *)
ReserveVariant(trace, budget) ==
  LET initial == Responders(trace, 1, InitialSlots)
      reserve == Responders(trace, InitialSlots + 1, Len(trace.roles))
      recovered == CHOOSE n \in {InitialSlots - initial, budget, reserve} :
                     \A other \in {InitialSlots - initial, budget, reserve} : n <= other
  IN Decision(IF initial + recovered < InitialSlots THEN "defer" ELSE SignalOutcome(trace, "ctiv"),
              "ctiv", 0, initial + recovered, InitialSlots + recovered, recovered)

DecisionOf(trace, method) ==
  CASE method = "no-verification" -> Decision("accept", "none", 0, 0, 0, 0)
    [] method = "owner-only" -> Decision(SignalOutcome(trace, "ctiv"), "ctiv", 1, 0, 0, 0)
    [] method = "vanilla" -> GroupDecision(trace, "ctiv", 1, 1)
    [] method = "depol" -> GroupDecision(trace, "ctiv", DepolSize, DepolMajority)
    [] method = "refiner" -> GroupDecision(trace, "refiner", RefinerSize, RefinerMajority)
    [] method = "full-sevc" -> ReserveVariant(trace, FullBudget)

OutcomeRow(i, method, decision) ==
  [trace |-> i, method |-> method, decision |-> decision,
   unsafe |-> /\ registry[i].bad /\ decision.outcome = "accept"
              /\ registry[i].found[decision.source].FN > 0,
   complete |-> decision.outcome \notin {"defer", "terminate"}]

-------------------------------------------------------------------------------
DirectInit ==
  /\ \E seeds \in TraceSeeds, units \in SourceUnits : registry = TraceRegistry(seeds, units)
  /\ outcomes = <<>> /\ variants = <<>> /\ gate = "open"

(* The next method of the next trace.                                      *)
Decide ==
  /\ Len(outcomes) < Len(registry) * Len(METHODS)
  /\ LET i == (Len(outcomes) \div Len(METHODS)) + 1
         method == METHODS[(Len(outcomes) % Len(METHODS)) + 1]
     IN outcomes' = Append(outcomes, OutcomeRow(i, method, DecisionOf(registry[i], method)))
  /\ UNCHANGED <<registry, variants, gate>>

(* The variants of a trace, by their budgets.                              *)
DecideVariants ==
  /\ Len(outcomes) = Len(registry) * Len(METHODS) /\ Len(variants) < Len(registry)
  /\ LET i == Len(variants) + 1
     IN variants' = Append(variants,
          [budget \in VariantBudgets |-> OutcomeRow(i, "full-sevc", ReserveVariant(registry[i], budget))])
  /\ UNCHANGED <<registry, outcomes, gate>>

(* The dataset is judged state by state; a state with too few or too many  *)
(* traces fails it.                                                        *)
Of(state, method) ==
  {k \in DOMAIN outcomes : outcomes[k].method = method /\ registry[outcomes[k].trace].state = state}
Unsafe(state, method) == {k \in Of(state, method) : outcomes[k].unsafe}
SafeRoutes(state) ==
  {k \in Of(state, "full-sevc") : outcomes[k].decision.outcome \in {"reject", "defer"} /\ ~outcomes[k].unsafe}
StatePassed(state) ==
  /\ Cardinality(Of(state, "no-verification")) = ExpectedTraces
  /\ Cardinality(Of(state, "full-sevc")) = ExpectedTraces
  /\ Unsafe(state, "full-sevc") = {}
  /\ Cardinality(Unsafe(state, "no-verification")) > Cardinality(Unsafe(state, "full-sevc"))
  /\ Cardinality(SafeRoutes(state)) = ExpectedTraces
EvaluateDatasetSafety ==
  /\ Len(variants) = Len(registry) /\ gate = "open"
  /\ gate' = IF \A state \in BadStates : StatePassed(state) THEN "passed" ELSE "failed"
  /\ UNCHANGED <<registry, outcomes, variants>>

Judged == gate # "open" /\ UNCHANGED compared

DirectNext == Decide \/ DecideVariants \/ EvaluateDatasetSafety \/ Judged
DirectSpec == DirectInit /\ [][DirectNext]_compared

-------------------------------------------------------------------------------
(* Properties                                                              *)

(* Who responds decides whether there is a verdict, never which: methods   *)
(* that read the same source agree on every trace they complete.           *)
VerdictsAgree ==
  \A i \in DOMAIN registry, source \in {"ctiv", "refiner"} :
    Cardinality({outcomes[k].decision.outcome :
                   k \in {k \in DOMAIN outcomes : /\ outcomes[k].trace = i /\ outcomes[k].complete
                                                  /\ outcomes[k].decision.source = source}}) <= 1

(* A larger reserve never undoes a verdict and never commissions fewer;    *)
(* what a budget completes is at least what asking that many reserves in   *)
(* roster order completes, and no more than the budget is recovered,       *)
(* through commissioned slots only.                                        *)
ReserveHelps ==
  \A i \in DOMAIN variants : \A b \in VariantBudgets :
    LET row == variants[i][b]
        missing == InitialSlots - Responders(registry[i], 1, InitialSlots)
        reach == IF InitialSlots + b < Len(registry[i].roles) THEN InitialSlots + b ELSE Len(registry[i].roles)
    IN /\ \A larger \in {c \in VariantBudgets : c >= b} :
            /\ row.complete => variants[i][larger].decision = row.decision
            /\ variants[i][larger].decision.commissioned >= row.decision.commissioned
       /\ Responders(registry[i], 1, reach) >= InitialSlots => row.complete
       /\ row.complete <=> row.decision.recovered = missing
       /\ row.complete => row.decision.executions = InitialSlots /\ missing <= b
       /\ row.decision.executions + missing - row.decision.recovered = InitialSlots
       /\ row.decision.executions <= row.decision.commissioned

(* A dataset that passes shows the contrast: full SEVC rejected or         *)
(* deferred every bad trainer, and in each state something bad was there   *)
(* to let through; one whose sources found everything bad does pass.       *)
Judges(state) == {i \in DOMAIN registry : registry[i].state = state}
GateMeans ==
  /\ gate = "passed" =>
       \A state \in BadStates :
         /\ \A k \in Of(state, "full-sevc") :
              registry[outcomes[k].trace].bad => outcomes[k].decision.outcome \in {"reject", "defer"}
         /\ \E i \in Judges(state) : registry[i].bad /\ registry[i].found["none"].FN > 0
  /\ gate = "failed" =>
       \E state \in BadStates :
         \/ Cardinality(Judges(state)) # ExpectedTraces
         \/ \E i \in Judges(state) : registry[i].found["ctiv"].FN > 0 \/ registry[i].found["ctiv"].TP = 0
         \/ \A i \in Judges(state) : registry[i].found["none"].FN = 0

(* The comparison says of the methods what the traces support.             *)
DirectSound == VerdictsAgree /\ ReserveHelps /\ GateMeans
===============================================================================
