-------------------------- MODULE ExecutedRecoveryProofs --------------------------
(***************************************************************************)
(* Theorems about execute_recovery, for every roster, every set of calls   *)
(* and every selection a controller makes.                                 *)
(***************************************************************************)
EXTENDS ExecutedRecovery, SetSums, FiniteSetTheorems, TLAPS

-------------------------------------------------------------------------------
(* Committees                                                              *)

(* The n first elements of a finite set of numbers are n, if it has them:  *)
(* counting the smaller elements numbers the set from 0 without gaps.      *)
LEMMA FirstOfSize ==
  ASSUME NEW S \in SUBSET Nat, IsFiniteSet(S), NEW n \in Nat, n <= Cardinality(S)
  PROVE  FirstOf(n, S) \subseteq S /\ Cardinality(FirstOf(n, S)) = n
<1> DEFINE below(v) == {u \in S : u < v}
           rank == [v \in S |-> Cardinality(below(v))]
           ranks == 0..(Cardinality(S) - 1)
<1>1. Cardinality(S) \in Nat
  BY FS_CardinalityType
<1>2. \A v \in S : IsFiniteSet(below(v)) /\ Cardinality(below(v)) \in Nat
  BY FS_Subset, FS_CardinalityType
<1>3. \A v, w \in S : v < w => Cardinality(below(v)) < Cardinality(below(w))
  <2> SUFFICES ASSUME NEW v \in S, NEW w \in S, v < w
               PROVE  Cardinality(below(v)) < Cardinality(below(w))
    OBVIOUS
  <2>0. \A u \in S : u < v => u < w
    <3> SUFFICES ASSUME NEW u \in S, u < v PROVE u < w
      OBVIOUS
    <3>1. u \in Nat /\ v \in Nat /\ w \in Nat
      OBVIOUS
    <3> QED BY <3>1
  <2>1. below(v) \cup {v} \in SUBSET below(w) /\ v \notin below(v)
    <3>1. v \in Nat
      OBVIOUS
    <3>2. ~(v < v)
      BY <3>1
    <3> QED BY <2>0, <3>2, Zenon
  <2>2. Cardinality(below(v) \cup {v}) = Cardinality(below(v)) + 1
    BY <1>2, <2>1, FS_AddElement
  <2>3. Cardinality(below(v) \cup {v}) <= Cardinality(below(w))
    BY <1>2, <2>1, FS_Subset
  <2> HIDE DEF below
  <2> QED BY <1>2, <2>2, <2>3
<1>4. \A v \in S : rank[v] \in ranks
  <2> SUFFICES ASSUME NEW v \in S PROVE Cardinality(below(v)) \in ranks
    OBVIOUS
  <2>1. below(v) \in SUBSET (S \ {v})
    OBVIOUS
  <2>2. IsFiniteSet(S \ {v}) /\ Cardinality(S \ {v}) = Cardinality(S) - 1
    BY FS_RemoveElement
  <2>3. Cardinality(below(v)) <= Cardinality(S \ {v})
    BY <2>1, <2>2, FS_Subset
  <2> HIDE DEF below
  <2> QED BY <1>1, <1>2, <2>2, <2>3
<1>5. rank \in Injection(S, ranks)
  <2> SUFFICES ASSUME NEW v \in S, NEW w \in S, rank[v] = rank[w] PROVE v = w
    BY <1>4 DEF Injection, IsInjective
  <2> HIDE DEF below
  <2>0. v \in Nat /\ w \in Nat
    OBVIOUS
  <2>1. Cardinality(below(v)) = Cardinality(below(w)) /\ Cardinality(below(v)) \in Nat
    BY <1>2
  <2>2. ~(v < w) /\ ~(w < v)
    BY <1>3, <2>1
  <2> QED BY <2>0, <2>2
<1>6. IsFiniteSet(ranks) /\ Cardinality(ranks) = Cardinality(S)
  <2>1. 0 \in Int /\ Cardinality(S) - 1 \in Int
    BY <1>1
  <2>2. IsFiniteSet(ranks)
          /\ Cardinality(ranks) = IF 0 > Cardinality(S) - 1 THEN 0 ELSE Cardinality(S) - 1 - 0 + 1
    BY <2>1, FS_Interval
  <2> HIDE DEF ranks
  <2> QED BY <1>1, <2>2
<1>7. rank \in Surjection(S, ranks)
  BY <1>5, <1>6, FS_Injection
<1>8. rank \in [S -> ranks] /\ \A r \in ranks : \E v \in S : rank[v] = r
  BY <1>7 DEF Surjection
<1>9. FirstOf(n, S) = {v \in S : rank[v] < n}
  BY DEF FirstOf
<1> DEFINE firsts == {v \in S : rank[v] < n}
           numbers == 0..(n - 1)
           first == [v \in firsts |-> rank[v]]
<1>10. \A v, w \in S : rank[v] = rank[w] => v = w
  BY <1>5 DEF Injection, IsInjective
<1> HIDE DEF rank
<1>11. first \in Injection(firsts, numbers)
  <2>1. \A v \in firsts : rank[v] \in numbers
    BY <1>1, <1>8
  <2>2. first \in [firsts -> numbers]
    BY <2>1
  <2>3. \A v, w \in firsts : first[v] = first[w] => v = w
    BY <1>10
  <2> HIDE DEF first
  <2> QED BY <2>2, <2>3 DEF Injection, IsInjective
<1>12. first \in Surjection(firsts, numbers)
  <2>1. \A r \in numbers : r \in ranks
    BY <1>1
  <2>2. \A r \in numbers : \E v \in firsts : first[v] = r
    BY <1>8, <2>1
  <2>3. first \in [firsts -> numbers]
    BY <1>11 DEF Injection
  <2> QED BY <2>2, <2>3 DEF Surjection
<1>13. IsFiniteSet(firsts)
  BY FS_Subset
<1>14. Cardinality(firsts) = Cardinality(numbers)
  BY <1>11, <1>12, <1>13, FS_Interval, FS_Injection
<1>15. Cardinality(numbers) = n
  BY FS_Interval
<1> QED BY <1>9, <1>14, <1>15

-------------------------------------------------------------------------------
(* The inductive invariant                                                 *)

Waiting == {ready[k][2] : k \in DOMAIN ready}

(* The reserved pairs are hired identities, each once, not yet settled,    *)
(* and a result that is there is one its member can end with.              *)
WaveInv ==
  /\ \A k \in DOMAIN ready :
       /\ ready[k][2] \in activation[ready[k][1]]
       /\ status[ready[k][2]] = Unsettled
       /\ results[k] = Running \/ results[k] \in MemberOutcomes(ready[k][2])
  /\ \A k, m \in DOMAIN ready : ready[k][2] = ready[m][2] => k = m
  /\ phase \in {"review", "done"} => ready = <<>>

(* Unsettled are the identities nobody hired and those still waited for.   *)
SettledInv ==
  \A v \in Verifiers : status[v] = Unsettled <=> v \notin Used \/ v \in Waiting

DecisionInv ==
  \A j \in Jobs :
    decisions[j].route \notin {"accept", "reject"} => decisions[j] \in {Undecided, Deferred}

IInv ==
  /\ StateOK
  /\ ReservedWithinCap
  /\ WaveInv
  /\ SettledInv
  /\ ResultsKeepTheirMember
  /\ DecisionInv
  /\ QuorumBehindDecision

-------------------------------------------------------------------------------
(* Outcomes                                                                *)

(* What a member ends with is an outcome; a missing one drops out.         *)
LEMMA OutcomeFacts ==
  ASSUME StateOK, NEW v \in Verifiers, NEW o \in MemberOutcomes(v)
  PROVE  /\ o \in Outcome
         /\ v \in setup.missing => o.status = "DROPOUT" /\ o.report = NoReport
<1>1. (CHOOSE r \in Reports : TRUE) \in Reports
  BY ReportsAssumption
<1> DEFINE any == CHOOSE r \in Reports : TRUE
<1>2. any \in Reports
  BY <1>1
<1> HIDE DEF any
<1>3. MemberOutcomes(v) =
        IF v \in setup.missing THEN {[status |-> "DROPOUT", report |-> NoReport]}
        ELSE [status: {"PASS"}, report: Reports]
               \cup {[status |-> "FAIL_CONFIRMED", report |-> any],
                     [status |-> "DROPOUT", report |-> NoReport]}
  BY DEF MemberOutcomes, any
<1> QED BY <1>2, <1>3 DEF Outcome, Statuses

(* Running is not an outcome.                                              *)
LEMMA RunningIsNoOutcome == Running \notin Outcome
BY DEF Running, Outcome, Statuses, Unsettled

(* A step that leaves hirings, settlements and decisions alone keeps the   *)
(* invariant.                                                              *)
LEMMA QuietStep ==
  ASSUME IInv, StateOK', phase' \in {"review", "done"} => ready = <<>>,
         UNCHANGED <<setup, ready, results, activation, spent, status, report, decisions>>
  PROVE  IInv'
<1>1. ReservedWithinCap'
  BY DEF IInv, ReservedWithinCap
<1>2. WaveInv'
  BY DEF IInv, WaveInv, MemberOutcomes
<1>3. SettledInv'
  BY DEF IInv, SettledInv, Used, Waiting
<1>4. ResultsKeepTheirMember'
  BY DEF IInv, ResultsKeepTheirMember
<1>5. DecisionInv'
  BY DEF IInv, DecisionInv
<1>6. QuorumBehindDecision'
  BY DEF IInv, QuorumBehindDecision, Backed, Saying
<1> QED BY <1>1, <1>2, <1>3, <1>4, <1>5, <1>6 DEF IInv

-------------------------------------------------------------------------------
(* The steps                                                               *)

(* A behaviour starts with the invariant.                                  *)
LEMMA InitInv == Init => IInv
<1> SUFFICES ASSUME Init PROVE IInv
  OBVIOUS
<1> USE DEF Init
<1>1. setup \in Setups /\ setup.prepaid \in Nat /\ setup.reserve \in Nat /\ setup.cap \in Nat
  BY SetupsAssumption
<1>2. StateOK
  <2>1. phase \in Phases /\ clock \in {Before, At, Past}
    BY DEF Phases
  <2>2. ready \in Seq(Jobs \X Verifiers) /\ results \in Seq(Outcome \cup {Running})
          /\ Len(results) = Len(ready)
    OBVIOUS
  <2>3. activation \in [Jobs -> SUBSET Verifiers] /\ spent \in [Jobs -> Nat] /\ review \in SUBSET Jobs
    BY <1>1
  <2>4. status \in [Verifiers -> Statuses \cup {Unsettled}]
          /\ report \in [Verifiers -> Reports \cup {NoReport}]
    OBVIOUS
  <2>5. decisions \in [Jobs -> Decision]
    BY DEF Decision, Routes, Undecided, Deferred
  <2> QED BY <1>1, <2>1, <2>2, <2>3, <2>4, <2>5 DEF StateOK
<1>3. ReservedWithinCap
  <2>1. \A j \in Jobs : spent[j] = setup.prepaid + setup.reserve * Cardinality(activation[j])
    BY <1>1, FS_EmptySet
  <2>2. setup.prepaid <= setup.cap
    BY <1>1, RosterAssumption
  <2> QED BY <2>1, <2>2 DEF ReservedWithinCap
<1>4. WaveInv
  BY DEF WaveInv
<1>5. SettledInv
  BY DEF SettledInv, Used
<1>6. ResultsKeepTheirMember
  <2>1. setup.missing \subseteq Verifiers
    BY <1>1, SetupsAssumption
  <2>2. \A j \in Jobs : decisions[j].committee = {}
    BY DEF Undecided, Deferred
  <2> QED BY <2>1, <2>2 DEF ResultsKeepTheirMember
<1>7. DecisionInv /\ QuorumBehindDecision
  BY DEF DecisionInv, QuorumBehindDecision, Undecided, Deferred
<1> QED BY <1>2, <1>3, <1>4, <1>5, <1>6, <1>7 DEF IInv

(* activate_many hires an identity.                                        *)
LEMMA HireStep ==
  ASSUME IInv, NEW j \in Jobs, NEW v \in Verifiers, phase = "wave",
         v \notin Used, ~OverBudget(j),
         activation' = [activation EXCEPT ![j] = @ \cup {v}],
         spent' = [spent EXCEPT ![j] = @ + setup.reserve],
         ready' = Append(ready, <<j, v>>), results' = Append(results, Running),
         UNCHANGED <<setup, clock, phase, status, report, review, decisions>>
  PROVE  IInv'
<1>1. StateOK /\ setup.prepaid \in Nat /\ setup.reserve \in Nat /\ setup.cap \in Nat
  BY SetupsAssumption DEF IInv, StateOK
<1>2. StateOK'
  <2>1. activation' \in [Jobs -> SUBSET Verifiers] /\ spent' \in [Jobs -> Nat]
    BY <1>1 DEF StateOK
  <2>2. /\ ready' \in Seq(Jobs \X Verifiers) /\ results' \in Seq(Outcome \cup {Running})
        /\ Len(results') = Len(ready')
    BY <1>1 DEF StateOK
  <2> QED BY <1>1, <2>1, <2>2 DEF StateOK
<1>3. /\ DOMAIN ready' = DOMAIN ready \cup {Len(ready) + 1}
      /\ \A k \in DOMAIN ready : ready'[k] = ready[k] /\ results'[k] = results[k]
      /\ ready'[Len(ready) + 1] = <<j, v>> /\ results'[Len(ready) + 1] = Running
  BY <1>1 DEF StateOK
<1>4. /\ activation'[j] = activation[j] \cup {v}
      /\ \A g \in Jobs : activation[g] \subseteq activation'[g]
      /\ \A g \in Jobs \ {j} : activation'[g] = activation[g]
  BY <1>1 DEF StateOK
<1>5. ReservedWithinCap'
  <2>1. Cardinality(activation[j]) \in Nat
          /\ Cardinality(activation'[j]) = Cardinality(activation[j]) + 1
    <3>1. IsFiniteSet(activation[j])
      BY <1>1, VerifiersAssumption, FS_Subset DEF StateOK
    <3> QED BY <1>4, <3>1, FS_AddElement, FS_CardinalityType DEF Used
  <2>2. \A r, c \in Nat : r * (c + 1) = r * c + r
    OBVIOUS
  <2>3. spent'[j] = setup.prepaid + setup.reserve * Cardinality(activation'[j])
    <3>1. spent'[j] = spent[j] + setup.reserve
      BY <1>1 DEF StateOK
    <3>2. spent[j] = setup.prepaid + setup.reserve * Cardinality(activation[j])
      BY DEF IInv, ReservedWithinCap
    <3>3. setup.reserve * Cardinality(activation'[j]) =
            setup.reserve * Cardinality(activation[j]) + setup.reserve
      BY <1>1, <2>1, <2>2
    <3>4. setup.reserve * Cardinality(activation[j]) \in Nat
      BY <1>1, <2>1
    <3> QED BY <1>1, <3>1, <3>2, <3>3, <3>4
  <2>4. spent'[j] <= setup.cap
    BY <1>1 DEF OverBudget, StateOK
  <2>5. \A g \in Jobs \ {j} : spent'[g] = spent[g]
    BY <1>1 DEF StateOK
  <2>6. \A g \in Jobs : \A h \in Jobs \ {g} : activation'[g] \cap activation'[h] = {}
    BY <1>4 DEF IInv, ReservedWithinCap, Used
  <2> QED BY <1>4, <2>3, <2>4, <2>5, <2>6 DEF IInv, ReservedWithinCap
<1>6. Used' = Used \cup {v}
  BY <1>4 DEF Used
<1>7. Waiting \subseteq Used /\ Waiting' = Waiting \cup {v}
  <2>1. Waiting \subseteq Used
    <3> SUFFICES ASSUME NEW k \in DOMAIN ready PROVE ready[k][2] \in Used
      BY DEF Waiting
    <3>1. ready[k] \in Jobs \X Verifiers
      BY <1>1 DEF StateOK
    <3>2. ready[k][1] \in Jobs /\ ready[k][2] \in activation[ready[k][1]]
      BY <3>1 DEF IInv, WaveInv
    <3> QED BY <3>2 DEF Used
  <2>2. <<j, v>>[2] = v
    OBVIOUS
  <2> QED BY <1>3, <2>1, <2>2 DEF Waiting
<1>8. status[v] = Unsettled
  BY DEF IInv, SettledInv
<1>9. WaveInv'
  <2>1. ASSUME NEW k \in DOMAIN ready'
        PROVE  /\ ready'[k][2] \in activation'[ready'[k][1]]
               /\ status'[ready'[k][2]] = Unsettled
               /\ results'[k] = Running \/ results'[k] \in MemberOutcomes(ready'[k][2])
    <3>1. CASE k \in DOMAIN ready
      <4>1. ready[k] \in Jobs \X Verifiers
        BY <1>1, <3>1 DEF StateOK
      <4>2. /\ ready[k][2] \in activation[ready[k][1]]
            /\ status[ready[k][2]] = Unsettled
            /\ results[k] = Running \/ results[k] \in MemberOutcomes(ready[k][2])
        BY <3>1 DEF IInv, WaveInv
      <4>3. ready'[k] = ready[k] /\ results'[k] = results[k]
        BY <1>3, <3>1
      <4> QED BY <1>4, <4>1, <4>2, <4>3
    <3>2. CASE k = Len(ready) + 1
      <4>1. ready'[k] = <<j, v>> /\ results'[k] = Running /\ v \in activation'[j]
        BY <1>3, <1>4, <3>2
      <4> QED BY <1>8, <4>1
    <3> QED BY <1>3, <3>1, <3>2
  <2>2. ASSUME NEW k \in DOMAIN ready', NEW m \in DOMAIN ready', ready'[k][2] = ready'[m][2]
        PROVE  k = m
    <3>1. \A n \in DOMAIN ready : ready'[n][2] # v
      BY <1>3, <1>7 DEF Waiting
    <3>2. ready'[Len(ready) + 1][2] = v
      BY <1>3
    <3>3. \A n, p \in DOMAIN ready : ready'[n][2] = ready'[p][2] => n = p
      BY <1>3 DEF IInv, WaveInv
    <3> QED BY <1>3, <2>2, <3>1, <3>2, <3>3
  <2>3. phase' = "wave"
    OBVIOUS
  <2>4. \A x : MemberOutcomes(x)' = MemberOutcomes(x)
    BY DEF MemberOutcomes
  <2> QED BY <2>1, <2>2, <2>3, <2>4 DEF WaveInv, MemberOutcomes
<1>10. SettledInv'
  BY <1>6, <1>7, <1>8 DEF IInv, SettledInv
<1>11. ResultsKeepTheirMember' /\ DecisionInv'
  BY DEF IInv, ResultsKeepTheirMember, DecisionInv
<1>12. QuorumBehindDecision'
  <2> SUFFICES ASSUME NEW g \in Jobs, decisions'[g].route \in {"accept", "reject"}
               PROVE  Backed(g)'
    BY DEF QuorumBehindDecision
  <2>1. Backed(g)
    BY DEF IInv, QuorumBehindDecision
  <2>2. activation[g] \subseteq activation'[g]
    BY <1>4
  <2>3. \A s \in Segments, verdict \in Verdicts : Saying(g, s, verdict)' = Saying(g, s, verdict)
    BY DEF Saying
  <2>4. decisions'[g].committee \subseteq {u \in activation'[g] : status'[u] = "PASS"}
    BY <2>1, <2>2 DEF Backed
  <2> QED BY <2>1, <2>3, <2>4 DEF Backed, Verdicts
<1> QED BY <1>2, <1>5, <1>9, <1>10, <1>11, <1>12 DEF IInv

(* A member finishes.                                                      *)
LEMMA FinishStep == ASSUME IInv, Finish PROVE IInv'
<1>1. StateOK
  BY DEF IInv
<1>2. PICK n \in Submitted \ Finished : \E outcome \in MemberOutcomes(ready[n][2]) :
               results' = [results EXCEPT ![n] = outcome]
  BY DEF Finish
<1>3. PICK outcome \in MemberOutcomes(ready[n][2]) : results' = [results EXCEPT ![n] = outcome]
  BY <1>2
<1>4. n \in DOMAIN ready /\ DOMAIN results = DOMAIN ready /\ ready[n] \in Jobs \X Verifiers
  BY <1>1, <1>2 DEF Submitted, StateOK
<1>5. outcome \in Outcome
  BY <1>1, <1>3, <1>4, OutcomeFacts
<1>6. results' \in Seq(Outcome \cup {Running}) /\ Len(results') = Len(results)
  BY <1>1, <1>3, <1>4, <1>5 DEF StateOK
<1>7. UNCHANGED <<setup, clock, phase, queue, ready, activation, spent, status, report,
                  review, decisions>>
  BY DEF Finish
<1>8. StateOK'
  BY <1>1, <1>6, <1>7 DEF StateOK
<1>9. \A k \in DOMAIN ready : results'[k] = IF k = n THEN outcome ELSE results[k]
  BY <1>3, <1>4
<1>10. WaveInv'
  <2>1. \A k \in DOMAIN ready :
          results'[k] = Running \/ results'[k] \in MemberOutcomes(ready[k][2])
    BY <1>3, <1>9 DEF IInv, WaveInv
  <2> QED BY <1>7, <2>1 DEF IInv, WaveInv, MemberOutcomes
<1>11. ReservedWithinCap' /\ SettledInv' /\ ResultsKeepTheirMember' /\ DecisionInv'
  BY <1>7 DEF IInv, ReservedWithinCap, SettledInv, Used, Waiting, ResultsKeepTheirMember, DecisionInv
<1>12. QuorumBehindDecision'
  BY <1>7 DEF IInv, QuorumBehindDecision, Backed, Saying
<1> QED BY <1>8, <1>10, <1>11, <1>12 DEF IInv

(* What Collect makes of each identity: a waiting one gets an outcome of   *)
(* its own, any other one stays as it was.                                 *)
LEMMA CollectEffect ==
  ASSUME IInv, Collect, NEW v \in Verifiers
  PROVE  /\ v \notin Waiting => status'[v] = status[v] /\ report'[v] = report[v]
         /\ v \in Waiting => \E o \in MemberOutcomes(v) :
                               status'[v] = o.status /\ report'[v] = o.report
<1>1. /\ status'[v] = IF ResultOf(v) = {} THEN status[v]
                      ELSE results[CHOOSE k \in ResultOf(v) : TRUE].status
      /\ report'[v] = IF ResultOf(v) = {} THEN report[v]
                      ELSE results[CHOOSE k \in ResultOf(v) : TRUE].report
  BY DEF Collect
<1>2. v \in Waiting <=> ResultOf(v) # {}
  BY DEF Waiting, ResultOf
<1>3. CASE v \notin Waiting
  BY <1>1, <1>2, <1>3
<1>4. CASE v \in Waiting
  <2> DEFINE n == CHOOSE k \in ResultOf(v) : TRUE
  <2>1. n \in ResultOf(v)
    BY <1>2, <1>4
  <2> HIDE DEF n
  <2>2. n \in DOMAIN ready /\ ready[n][2] = v
    BY <2>1 DEF ResultOf
  <2>3. results[n] # Running
    BY <2>2 DEF Collect, Finished
  <2>4. results[n] \in MemberOutcomes(v)
    BY <2>2, <2>3 DEF IInv, WaveInv
  <2>5. status'[v] = results[n].status /\ report'[v] = results[n].report
    BY <1>1, <1>2, <1>4 DEF n
  <2> QED BY <1>4, <2>4, <2>5
<1> QED BY <1>3, <1>4

(* A wave is collected.                                                    *)
LEMMA CollectStep == ASSUME IInv, Collect PROVE IInv'
<1>1. StateOK
  BY DEF IInv
<1>2. UNCHANGED <<setup, clock, phase, queue, activation, spent, review, decisions>>
        /\ ready' = <<>> /\ results' = <<>> /\ phase = "wave"
  BY DEF Collect, Executing
<1>3. ASSUME NEW v \in Verifiers
      PROVE  /\ v \in Waiting => status[v] = Unsettled /\ v \in Used
             /\ v \in Waiting => status'[v] \in Statuses
             /\ status'[v] \in Statuses \cup {Unsettled} /\ report'[v] \in Reports \cup {NoReport}
             /\ v \in setup.missing => status'[v] \in {Unsettled, "DROPOUT"} /\ report'[v] = NoReport
  <2>1. CASE v \notin Waiting
    <3>1. status'[v] = status[v] /\ report'[v] = report[v]
      BY <2>1, CollectEffect
    <3> QED BY <1>1, <2>1, <3>1 DEF IInv, StateOK, ResultsKeepTheirMember
  <2>2. CASE v \in Waiting
    <3>1. PICK o \in MemberOutcomes(v) : status'[v] = o.status /\ report'[v] = o.report
      BY <2>2, CollectEffect
    <3>2. o \in Outcome /\ (v \in setup.missing => o.status = "DROPOUT" /\ o.report = NoReport)
      BY <1>1, OutcomeFacts
    <3>3. PICK k \in DOMAIN ready : ready[k][2] = v
      BY <2>2 DEF Waiting
    <3>4. status[v] = Unsettled /\ v \in activation[ready[k][1]]
      BY <3>3 DEF IInv, WaveInv
    <3>5. ready[k][1] \in Jobs
      <4>1. ready[k] \in Jobs \X Verifiers
        BY <1>1, <3>3 DEF StateOK
      <4> QED BY <4>1
    <3> QED BY <2>2, <3>1, <3>2, <3>4, <3>5 DEF Outcome, Used
  <2> QED BY <2>1, <2>2
<1>4. StateOK'
  <2>1. status' \in [Verifiers -> Statuses \cup {Unsettled}]
          /\ report' \in [Verifiers -> Reports \cup {NoReport}]
    <3>1. /\ status' = [v \in Verifiers |-> status'[v]]
          /\ report' = [v \in Verifiers |-> report'[v]]
      BY DEF Collect
    <3> QED BY <1>3, <3>1
  <2> QED BY <1>1, <1>2, <2>1 DEF StateOK
<1>5. ReservedWithinCap' /\ DecisionInv'
  BY <1>2 DEF IInv, ReservedWithinCap, DecisionInv
<1>6. WaveInv'
  BY <1>2 DEF WaveInv
<1>7. Used' = Used /\ Waiting' = {}
  BY <1>2 DEF Used, Waiting
<1>8. SettledInv'
  <2> SUFFICES ASSUME NEW v \in Verifiers PROVE status'[v] = Unsettled <=> v \notin Used
    BY <1>7 DEF SettledInv
  <2>1. CASE v \notin Waiting
    BY <2>1, CollectEffect DEF IInv, SettledInv
  <2>2. CASE v \in Waiting
    BY <1>3, <2>2 DEF Statuses, Unsettled
  <2> QED BY <2>1, <2>2
<1>9. ResultsKeepTheirMember'
  <2>1. setup.missing \subseteq Verifiers
    BY <1>1, SetupsAssumption DEF StateOK
  <2> QED BY <1>2, <1>3, <2>1 DEF IInv, ResultsKeepTheirMember
<1>10. QuorumBehindDecision'
  <2> SUFFICES ASSUME NEW j \in Jobs, decisions[j].route \in {"accept", "reject"}
               PROVE  Backed(j)'
    BY <1>2 DEF QuorumBehindDecision
  <2>1. Backed(j)
    BY DEF IInv, QuorumBehindDecision
  <2>2. \A v \in decisions[j].committee :
          v \in activation[j] /\ status'[v] = "PASS" /\ report'[v] = report[v]
    <3> SUFFICES ASSUME NEW v \in decisions[j].committee
                 PROVE  v \in activation[j] /\ status'[v] = "PASS" /\ report'[v] = report[v]
      OBVIOUS
    <3>1. v \in activation[j] /\ status[v] = "PASS"
      BY <2>1 DEF Backed
    <3>2. v \in Verifiers
      BY <1>1, <3>1 DEF StateOK
    <3>3. v \notin Waiting
      BY <1>3, <3>1, <3>2 DEF Unsettled
    <3> QED BY <3>1, <3>2, <3>3, CollectEffect
  <2>3. \A s \in Segments, verdict \in Verdicts : Saying(j, s, verdict)' = Saying(j, s, verdict)
    <3> SUFFICES ASSUME NEW s \in Segments, NEW verdict \in Verdicts
                 PROVE  Saying(j, s, verdict)' = Saying(j, s, verdict)
      OBVIOUS
    <3>1. {v \in decisions[j].committee : report'[v][s] = verdict} =
            {v \in decisions[j].committee : report[v][s] = verdict}
      BY <2>2
    <3> QED BY <1>2, <3>1 DEF Saying
  <2>4. decisions'[j].committee \subseteq {v \in activation'[j] : status'[v] = "PASS"}
    BY <1>2, <2>2
  <2> QED BY <1>2, <2>1, <2>3, <2>4 DEF Backed, Verdicts
<1> QED BY <1>4, <1>5, <1>6, <1>8, <1>9, <1>10 DEF IInv

(* The committee of a decidable job: Quorum passing identities hired for   *)
(* it, each saying "true" or "false" of every segment.                     *)
LEMMA CommitteeFacts ==
  ASSUME IInv, NEW j \in Jobs, Decidable(j)
  PROVE  LET committee == Committee(Survivors(j))
         IN  /\ committee \subseteq {v \in activation[j] : status[v] = "PASS"}
             /\ IsFiniteSet(committee) /\ Cardinality(committee) = Quorum
             /\ \A v \in committee : \A s \in Segments : report[v][s] \in {"true", "false"}
<1> DEFINE survivors == Survivors(j)
           committee == Committee(survivors)
<1>1. StateOK
  BY DEF IInv
<1>2. survivors \subseteq Verifiers
  BY <1>1 DEF Survivors, StateOK
<1>3. survivors \in SUBSET Nat /\ IsFiniteSet(survivors)
  BY <1>2, VerifiersAssumption, FS_Subset
<1>4. Quorum \in Nat /\ Quorum <= Cardinality(survivors)
  <2>1. Cardinality(survivors) \in Nat
    BY <1>3, FS_CardinalityType
  <2>2. Quorum \in Nat
    BY QuorumAssumption
  <2>3. Cardinality(survivors) >= Quorum
    BY DEF Decidable, Reconstituted
  <2> QED BY <2>1, <2>2, <2>3
<1>5. committee \subseteq survivors /\ Cardinality(committee) = Quorum
  BY <1>3, <1>4, FirstOfSize DEF Committee
<1>6. IsFiniteSet(committee)
  BY <1>3, <1>5, FS_Subset
<1>7. \A s \in Segments : Votes(committee, s) = committee
  BY DEF Decidable, Conclusive
<1>8. \A v \in committee : /\ v \in activation[j] /\ status[v] = "PASS"
                           /\ report[v] \in [Segments -> Verdicts]
  BY <1>1, <1>2, <1>5, ReportsAssumption DEF Survivors, StateOK
<1> HIDE DEF committee
<1>9. \A v \in committee : \A s \in Segments : report[v][s] # "none"
  BY <1>7 DEF Votes
<1>10. \A v \in committee : \A s \in Segments : report[v][s] \in {"true", "false"}
  BY <1>8, <1>9 DEF Verdicts
<1> QED BY <1>5, <1>6, <1>8, <1>10 DEF committee

(* A job is decided, or left alone.                                        *)
LEMMA ReviewStep == ASSUME IInv, Review PROVE IInv'
<1>1. StateOK
  BY DEF IInv
<1>2. UNCHANGED <<setup, clock, phase, queue, ready, results, activation, spent, status, report>>
        /\ phase = "review"
  BY DEF Review
<1>3. PICK j \in review :
        /\ review' = review \ {j}
        /\ decisions' =
             IF j \notin Decided /\ Decidable(j)
             THEN [decisions EXCEPT ![j] =
                    [route |-> IF Accepts(Committee(Survivors(j))) THEN "accept" ELSE "reject",
                     committee |-> Committee(Survivors(j))]]
             ELSE decisions
  BY DEF Review
<1>4. j \in Jobs /\ review' \in SUBSET Jobs
  BY <1>1, <1>3 DEF StateOK
<1>5. WaveInv' /\ ReservedWithinCap' /\ SettledInv'
  BY <1>2 DEF IInv, WaveInv, MemberOutcomes, ReservedWithinCap, SettledInv, Used, Waiting
<1>6. CASE j \notin Decided /\ Decidable(j)
  <2> DEFINE committee == Committee(Survivors(j))
             route == IF Accepts(committee) THEN "accept" ELSE "reject"
  <2>1. /\ committee \subseteq {v \in activation[j] : status[v] = "PASS"}
        /\ IsFiniteSet(committee) /\ Cardinality(committee) = Quorum
        /\ \A v \in committee : \A s \in Segments : report[v][s] \in {"true", "false"}
    BY <1>4, <1>6, CommitteeFacts
  <2>2. committee \in SUBSET Verifiers
    BY <1>1, <1>4, <2>1 DEF StateOK
  <2>3. decisions' = [decisions EXCEPT ![j] = [route |-> route, committee |-> committee]]
    BY <1>3, <1>6
  <2>4. route = "accept" <=> Accepts(committee)
    OBVIOUS
  <2>5. route \in {"accept", "reject"}
    OBVIOUS
  <2>6. Accepts(committee) <=>
          \A s \in Segments : 2 * Cardinality(For(committee, s)) > Cardinality(committee)
    BY DEF Accepts
  <2> HIDE DEF committee, route
  <2>7. decisions'[j] = [route |-> route, committee |-> committee]
          /\ \A h \in Jobs \ {j} : decisions'[h] = decisions[h]
    BY <1>1, <1>4, <2>3 DEF StateOK
  <2>8. decisions' \in [Jobs -> Decision]
    BY <1>1, <1>4, <2>2, <2>3, <2>5 DEF StateOK, Decision, Routes
  <2>9. StateOK'
    BY <1>1, <1>2, <1>4, <2>8 DEF StateOK
  <2>10. ResultsKeepTheirMember'
    <3>1. \A v \in setup.missing : v \notin committee
      BY <2>1 DEF IInv, ResultsKeepTheirMember, Unsettled
    <3> QED BY <1>2, <2>7, <3>1 DEF IInv, ResultsKeepTheirMember
  <2>11. DecisionInv'
    BY <2>5, <2>7 DEF IInv, DecisionInv
  <2>12. \A s \in Segments :
           LET for == For(committee, s)
           IN  /\ Cardinality(for) \in Nat /\ Quorum \in Nat
               /\ Saying(j, s, "true")' = Cardinality(for)
               /\ Saying(j, s, "false")' = Quorum - Cardinality(for)
    <3> SUFFICES ASSUME NEW s \in Segments
                 PROVE  /\ Cardinality(For(committee, s)) \in Nat /\ Quorum \in Nat
                        /\ Saying(j, s, "true")' = Cardinality(For(committee, s))
                        /\ Saying(j, s, "false")' = Quorum - Cardinality(For(committee, s))
      OBVIOUS
    <3>1. For(committee, s) \in SUBSET committee
      BY DEF For
    <3>2. IsFiniteSet(For(committee, s)) /\ Cardinality(For(committee, s)) \in Nat
      BY <2>1, <3>1, FS_Subset, FS_CardinalityType
    <3>3. {v \in committee : report[v][s] = "true"} = For(committee, s)
      BY DEF For
    <3>4. {v \in committee : report[v][s] = "false"} = committee \ For(committee, s)
      BY <2>1 DEF For
    <3>5. Cardinality(committee \ For(committee, s)) = Quorum - Cardinality(For(committee, s))
      <4>1. committee \cap For(committee, s) = For(committee, s)
        BY <3>1
      <4>2. Cardinality(committee \ For(committee, s)) =
              Cardinality(committee) - Cardinality(committee \cap For(committee, s))
        BY <2>1, <3>2, FS_Difference
      <4> QED BY <2>1, <4>1, <4>2
    <3>6. decisions'[j].committee = committee /\ report' = report
      BY <1>2, <2>7
    <3>7. Saying(j, s, "true")' = Cardinality({v \in committee : report[v][s] = "true"})
            /\ Saying(j, s, "false")' = Cardinality({v \in committee : report[v][s] = "false"})
      BY <3>6 DEF Saying
    <3> QED BY <3>2, <3>3, <3>4, <3>5, <3>7, QuorumAssumption
  <2>13. Backed(j)'
    <3>1. decisions'[j].route = route /\ decisions'[j].committee = committee
      BY <2>7
    <3>2. committee \subseteq {v \in activation'[j] : status'[v] = "PASS"}
      BY <1>2, <2>1
    <3>3. CASE route = "accept"
      <4>1. \A s \in Segments : 2 * Saying(j, s, "true")' > Quorum
        BY <2>1, <2>4, <2>6, <2>12, <3>3
      <4> QED BY <2>1, <3>1, <3>2, <3>3, <4>1 DEF Backed
    <3>4. CASE route = "reject"
      <4>1. PICK s \in Segments : ~(2 * Cardinality(For(committee, s)) > Quorum)
        BY <2>1, <2>4, <2>6, <3>4
      <4>2. 2 * Saying(j, s, "false")' >= Quorum
        BY <2>12, <4>1
      <4> QED BY <2>1, <3>1, <3>2, <3>4, <4>2 DEF Backed
    <3> QED BY <2>5, <3>3, <3>4
  <2>14. \A h \in Jobs \ {j} : Backed(h) => Backed(h)'
    BY <1>2, <2>7 DEF Backed, Saying
  <2>15. QuorumBehindDecision'
    <3> SUFFICES ASSUME NEW h \in Jobs, decisions'[h].route \in {"accept", "reject"}
                 PROVE  Backed(h)'
      BY DEF QuorumBehindDecision
    <3>1. CASE h = j
      BY <2>13, <3>1
    <3>2. CASE h # j
      BY <2>7, <2>14, <3>2 DEF IInv, QuorumBehindDecision
    <3> QED BY <3>1, <3>2
  <2> QED BY <1>5, <2>9, <2>10, <2>11, <2>15 DEF IInv
<1>7. CASE ~(j \notin Decided /\ Decidable(j))
  <2>1. decisions' = decisions
    BY <1>3, <1>7
  <2>2. StateOK'
    BY <1>1, <1>2, <1>4, <2>1 DEF StateOK
  <2> QED BY <1>2, <2>1, <2>2, QuietStep DEF IInv, WaveInv
<1> QED BY <1>6, <1>7

(* The call ends and defers what is open.                                  *)
LEMMA DeferStep ==
  ASSUME IInv, Defer, phase = "review", phase' = "done",
         UNCHANGED <<setup, clock, ready, results, activation, spent, status, report, review>>
  PROVE  IInv'
<1>1. StateOK
  BY DEF IInv
<1>2. \A j \in Jobs : decisions'[j] = IF j \in Decided THEN decisions[j] ELSE Deferred
  BY DEF Defer
<1>3. decisions' \in [Jobs -> Decision]
  <2>1. Deferred \in Decision
    BY DEF Deferred, Decision, Routes
  <2>2. \A j \in Jobs : decisions'[j] \in Decision
    BY <1>1, <1>2, <2>1 DEF StateOK
  <2> QED BY <2>2 DEF Defer
<1>4. StateOK'
  BY <1>1, <1>3 DEF StateOK, Phases
<1>5. WaveInv' /\ ReservedWithinCap' /\ SettledInv'
  BY DEF IInv, WaveInv, MemberOutcomes, ReservedWithinCap, SettledInv, Used, Waiting
<1>6. ResultsKeepTheirMember' /\ DecisionInv'
  BY <1>2 DEF IInv, ResultsKeepTheirMember, DecisionInv, Deferred
<1>7. QuorumBehindDecision'
  <2> SUFFICES ASSUME NEW j \in Jobs, decisions'[j].route \in {"accept", "reject"}
               PROVE  Backed(j)'
    BY DEF QuorumBehindDecision
  <2>1. decisions'[j] = decisions[j]
    BY <1>2 DEF Deferred
  <2> QED BY <2>1 DEF IInv, QuorumBehindDecision, Backed, Saying
<1> QED BY <1>4, <1>5, <1>6, <1>7 DEF IInv

-------------------------------------------------------------------------------
(* Theorems                                                                *)

(* Every step keeps the invariant.                                         *)
LEMMA NextInv == IInv /\ [Next]_vars => IInv'
<1> SUFFICES ASSUME IInv, [Next]_vars PROVE IInv'
  OBVIOUS
<1>1. StateOK /\ (phase = "review" => ready = <<>>)
  BY DEF IInv, WaveInv
<1>2. CASE Skip
  BY <1>1, <1>2, QuietStep DEF Skip, Considering, StateOK
<1>3. CASE Reserve
  <2>1. PICK j \in Jobs, v \in Verifiers :
          /\ Considering(j, v)
          /\ IF v \in Used
             THEN /\ phase' = "duplicate capacity"
                  /\ UNCHANGED <<queue, ready, results, activation, spent>>
             ELSE /\ ~OverBudget(j)
                  /\ activation' = [activation EXCEPT ![j] = @ \cup {v}]
                  /\ spent' = [spent EXCEPT ![j] = @ + setup.reserve]
                  /\ ready' = Append(ready, <<j, v>>)
                  /\ results' = Append(results, Running)
                  /\ phase' = phase
          /\ UNCHANGED <<setup, clock, status, report, review, decisions>>
    BY <1>3 DEF Reserve
  <2>2. CASE v \in Used
    <3>1. StateOK'
      BY <1>1, <2>1, <2>2 DEF StateOK, Phases
    <3> QED BY <2>1, <2>2, <3>1, QuietStep
  <2>3. CASE v \notin Used
    BY <2>1, <2>3, HireStep DEF Considering
  <2> QED BY <2>2, <2>3
<1>4. CASE WaveEnds
  <2>1. StateOK'
    BY <1>1, <1>4 DEF WaveEnds, StateOK, Phases
  <2> QED BY <1>4, <2>1, QuietStep DEF WaveEnds
<1>5. CASE Finish
  BY <1>5, FinishStep
<1>6. CASE Collect
  BY <1>6, CollectStep
<1>7. CASE Review
  BY <1>7, ReviewStep
<1>8. CASE NextWave
  <2>1. (phase' = "done" /\ Defer) \/ (phase' = "wave" /\ UNCHANGED decisions)
    BY <1>8 DEF NextWave
  <2>2. phase = "review"
          /\ UNCHANGED <<setup, clock, ready, results, activation, spent, status, report, review>>
    BY <1>8 DEF NextWave, WaitingForSelection
  <2>3. CASE phase' = "done" /\ Defer
    BY <2>2, <2>3, DeferStep
  <2>4. CASE phase' = "wave" /\ UNCHANGED decisions
    <3>1. StateOK'
      BY <1>1, <2>2, <2>4 DEF StateOK, Phases
    <3> QED BY <2>2, <2>4, <3>1, QuietStep
  <2> QED BY <2>1, <2>3, <2>4
<1>9. CASE Return
  BY <1>9, DeferStep DEF Return
<1>10. CASE Tick
  <2>1. StateOK'
    BY <1>1, <1>10 DEF Tick, StateOK
  <2> QED BY <1>10, <2>1, QuietStep DEF Tick, StoppedPhases, IInv, WaveInv
<1>11. CASE MemberRaises
  <2>1. StateOK'
    BY <1>1, <1>11 DEF MemberRaises, StateOK, Phases
  <2> QED BY <1>11, <2>1, QuietStep DEF MemberRaises
<1>12. CASE UNCHANGED vars
  <2>1. StateOK'
    BY <1>1, <1>12 DEF vars, StateOK
  <2> QED BY <1>12, <2>1, QuietStep DEF vars, IInv, WaveInv
<1>13. CASE Stopped
  BY <1>12, <1>13 DEF Stopped
<1> QED BY <1>2, <1>3, <1>4, <1>5, <1>6, <1>7, <1>8, <1>9, <1>10, <1>11, <1>12, <1>13
        DEF Next, Step

(* The invariant holds in every reachable state.                           *)
THEOREM Invariance == Spec => []IInv
<1> QED BY InitInv, NextInv, PTL DEF Spec

(* Whatever the controller selects and however the lanes finish, no        *)
(* identity serves two jobs and no job's reservations exceed its budget.   *)
THEOREM WithinBudgetAlways == Spec => []ReservedWithinCap
<1>1. IInv => ReservedWithinCap
  BY DEF IInv
<1> QED BY <1>1, Invariance, PTL

(* When the call returns, exactly the activated identities have settled.   *)
THEOREM UsageIsSettled == Spec => []UsageSettled
<1>1. IInv => UsageSettled
  <2> SUFFICES ASSUME IInv, phase = "done", NEW v \in Verifiers
               PROVE  v \in Used <=> status[v] # Unsettled
    BY DEF UsageSettled
  <2>1. Waiting = {}
    BY DEF IInv, WaveInv, Waiting
  <2> QED BY <2>1 DEF IInv, SettledInv
<1> QED BY <1>1, Invariance, PTL

(* A missing identity never gets a PASS, a report or a vote.               *)
THEOREM MissingNeverVotes == Spec => []ResultsKeepTheirMember
<1>1. IInv => ResultsKeepTheirMember
  BY DEF IInv
<1> QED BY <1>1, Invariance, PTL

(* Every decision has its quorum, and the votes that justify it, behind    *)
(* it.                                                                     *)
THEOREM DecisionsHaveQuorum == Spec => []QuorumBehindDecision
<1>1. IInv => QuorumBehindDecision
  BY DEF IInv
<1> QED BY <1>1, Invariance, PTL

-------------------------------------------------------------------------------
(* Refinement of the contract                                              *)

(* The contract counts with the same Cardinality.                          *)
LEMMA SameCardinality == \A S : C!Cardinality(S) = Cardinality(S)
BY DEF C!Cardinality, Cardinality

(* A call starts as the contract does.                                     *)
LEMMA InitRefines == Init => C!Init
<1> SUFFICES ASSUME Init PROVE C!Init
  OBVIOUS
<1>1. Terms \in [prepaid: Nat, reserve: Nat, cap: Nat, conflicts: SUBSET (Verifiers \X Jobs)]
  <2>1. setup \in Setups
    BY DEF Init
  <2> QED BY <2>1, SetupsAssumption DEF Terms
<1>2. activation = [j \in Jobs |-> {}] /\ status = [v \in Verifiers |-> C!Unsettled]
  BY DEF Init, Unsettled, C!Unsettled
<1>3. CASE setup.preDefer
  <2>1. (phase \notin StoppedPhases) = FALSE
    BY <1>3 DEF Init, StoppedPhases
  <2>2. decisions = [j \in Jobs |-> C!Deferred]
    BY <1>3 DEF Init, Deferred, C!Deferred
  <2> QED BY <1>1, <1>2, <2>1, <2>2 DEF C!Init
<1>4. CASE ~setup.preDefer
  <2>1. (phase \notin StoppedPhases) = TRUE
    BY <1>4 DEF Init, StoppedPhases
  <2>2. decisions = [j \in Jobs |-> C!Undecided]
    BY <1>4 DEF Init, Undecided, C!Undecided
  <2> QED BY <1>1, <1>2, <2>1, <2>2 DEF C!Init
<1> QED BY <1>3, <1>4

(* The end of the call closes the contract: nobody is unsettled.           *)
LEMMA DeferCloses ==
  ASSUME IInv, Defer, phase = "review", phase' = "done",
         UNCHANGED <<setup, activation, status>>
  PROVE  C!Close
<1>1. StateOK /\ Waiting = {}
  BY DEF IInv, WaveInv, Waiting
<1>2. (phase \notin StoppedPhases) /\ (phase \notin StoppedPhases)' = FALSE
  BY DEF StoppedPhases
<1>3. \A v \in C!Hired : status[v] # C!Unsettled
  <2> SUFFICES ASSUME NEW v \in Used PROVE status[v] # Unsettled
    BY DEF C!Hired, Used, Unsettled, C!Unsettled
  <2>1. v \in Verifiers
    BY <1>1 DEF Used, StateOK
  <2> QED BY <1>1, <2>1 DEF IInv, SettledInv
<1>4. \A j \in Jobs : j \notin Decided <=> decisions[j] = C!Undecided
  <2> SUFFICES ASSUME NEW j \in Jobs PROVE j \notin Decided <=> decisions[j] = Undecided
    BY DEF Undecided, C!Undecided
  <2>1. decisions[j].route \notin {"accept", "reject"} => decisions[j] \in {Undecided, Deferred}
    BY DEF IInv, DecisionInv
  <2>2. Undecided.route = "open" /\ Deferred.route = "safe-defer"
    BY DEF Undecided, Deferred
  <2> QED BY <2>1, <2>2 DEF Decided
<1>5. decisions' = [j \in Jobs |-> IF decisions[j] = C!Undecided THEN C!Deferred ELSE decisions[j]]
  BY <1>4 DEF Defer, Deferred, C!Deferred
<1>6. UNCHANGED <<Terms, activation, status>>
  BY DEF Terms
<1> QED BY <1>2, <1>3, <1>5, <1>6 DEF C!Close

(* Every step is a step of the contract, or none.                          *)
LEMMA NextRefines == IInv /\ [Next]_vars => [C!Next]_(C!vars)
<1> SUFFICES ASSUME IInv, [Next]_vars PROVE [C!Next]_(C!vars)
  OBVIOUS
<1> DEFINE still == UNCHANGED <<setup, activation, status, decisions>>
<1>1. StateOK
  BY DEF IInv
<1>2. ASSUME still, phase \notin StoppedPhases <=> phase' \notin StoppedPhases
      PROVE  UNCHANGED C!vars
  <2>1. (phase \notin StoppedPhases)' = (phase \notin StoppedPhases)
    BY <1>2
  <2>2. Terms' = Terms
    BY <1>2 DEF Terms
  <2> QED BY <1>2, <2>1, <2>2 DEF C!vars
<1>3. ASSUME still, phase \notin StoppedPhases, phase' \in StoppedPhases
      PROVE  C!Raise
  <2>1. (phase \notin StoppedPhases)' = FALSE
    BY <1>3
  <2>2. Terms' = Terms
    BY <1>3 DEF Terms
  <2> QED BY <1>3, <2>1, <2>2 DEF C!Raise
<1>4. CASE Skip \/ WaveEnds \/ Finish \/ Tick
  <2>1. still
    BY <1>4 DEF Skip, WaveEnds, Finish, Tick
  <2>2. phase' = phase \/ (phase = "wave" /\ phase' = "review")
    BY <1>4 DEF Skip, WaveEnds, Finish, Tick
  <2>3. phase \notin StoppedPhases <=> phase' \notin StoppedPhases
    BY <2>2 DEF StoppedPhases
  <2> HIDE DEF still
  <2> QED BY <1>2, <2>1, <2>3
<1>5. CASE Reserve
  <2>1. PICK j \in Jobs, v \in Verifiers :
          /\ Considering(j, v) /\ v \in Compatible(j)
          /\ IF v \in Used
             THEN phase' = "duplicate capacity" /\ UNCHANGED activation
             ELSE /\ ~OverBudget(j)
                  /\ activation' = [activation EXCEPT ![j] = @ \cup {v}]
                  /\ phase' = phase
          /\ UNCHANGED <<setup, status, decisions>>
    BY <1>5 DEF Reserve
  <2>2. CASE v \in Used
    BY <1>3, <2>1, <2>2 DEF Considering, StoppedPhases, C!Next
  <2>3. CASE v \notin Used
    <3>1. (phase \notin StoppedPhases) /\ (phase \notin StoppedPhases)' = (phase \notin StoppedPhases)
      BY <2>1, <2>3 DEF Considering, StoppedPhases
    <3>2. v \notin C!Hired /\ <<v, j>> \notin Terms.conflicts
      BY <2>1, <2>3 DEF C!Hired, Used, Compatible, Terms
    <3>3. Terms.prepaid + Terms.reserve * (Cardinality(activation[j]) + 1) <= Terms.cap
      <4>1. setup.prepaid \in Nat /\ setup.reserve \in Nat /\ setup.cap \in Nat
        BY <1>1, SetupsAssumption DEF StateOK
      <4>2. Cardinality(activation[j]) \in Nat
        <5>1. IsFiniteSet(activation[j])
          BY <1>1, VerifiersAssumption, FS_Subset DEF StateOK
        <5> QED BY <5>1, FS_CardinalityType
      <4>3. \A r, c \in Nat : r * (c + 1) = r * c + r /\ r * c \in Nat
        OBVIOUS
      <4>4. spent[j] = setup.prepaid + setup.reserve * Cardinality(activation[j])
        BY DEF IInv, ReservedWithinCap
      <4>5. spent[j] + setup.reserve <= setup.cap
        <5>1. spent[j] \in Nat
          BY <1>1 DEF StateOK
        <5> QED BY <2>1, <2>3, <4>1, <5>1 DEF OverBudget
      <4>6. /\ setup.reserve * (Cardinality(activation[j]) + 1) =
                 setup.reserve * Cardinality(activation[j]) + setup.reserve
            /\ setup.reserve * Cardinality(activation[j]) \in Nat
        BY <4>1, <4>2, <4>3
      <4>7. setup.prepaid + setup.reserve * (Cardinality(activation[j]) + 1) <= setup.cap
        BY <4>1, <4>4, <4>5, <4>6
      <4> QED BY <4>7 DEF Terms
    <3>4. Terms' = Terms
      BY <2>1 DEF Terms
    <3>5. activation' = [activation EXCEPT ![j] = @ \cup {v}] /\ UNCHANGED <<status, decisions>>
      BY <2>1, <2>3
    <3>6. UNCHANGED <<Terms, status, decisions, phase \notin StoppedPhases>>
      BY <3>1, <3>4, <3>5
    <3>7. C!Hire(v, j)
      BY <3>1, <3>2, <3>3, <3>5, <3>6, SameCardinality, Zenon DEF C!Hire
    <3> QED BY <3>7 DEF C!Next
  <2> QED BY <2>2, <2>3 DEF C!Next
<1>6. CASE Collect
  <2>1. (phase \notin StoppedPhases) /\ (phase \notin StoppedPhases)' = (phase \notin StoppedPhases)
    BY <1>6 DEF Collect, Executing, StoppedPhases
  <2>2. \A v \in Verifiers :
          \/ status'[v] = status[v]
          \/ v \in C!Hired /\ status[v] = C!Unsettled /\ status'[v] \in C!Statuses
    <3> SUFFICES ASSUME NEW v \in Verifiers, status'[v] # status[v]
                 PROVE  v \in Used /\ status[v] = Unsettled /\ status'[v] \in Statuses
      BY DEF C!Hired, Used, C!Unsettled, Unsettled, C!Statuses, Statuses
    <3>1. v \in Waiting
      BY <1>6, CollectEffect
    <3>2. status[v] = Unsettled
      BY <3>1 DEF Waiting, IInv, WaveInv
    <3>3. status'[v] \in Statuses
      <4>1. PICK o \in MemberOutcomes(v) : status'[v] = o.status
        BY <1>6, <3>1, CollectEffect
      <4>2. o \in Outcome
        BY <1>1, OutcomeFacts
      <4> QED BY <4>1, <4>2 DEF Outcome
    <3>4. v \in Used
      <4>1. PICK k \in DOMAIN ready : ready[k][2] = v
        BY <3>1 DEF Waiting
      <4>2. ready[k] \in Jobs \X Verifiers
        BY <1>1, <4>1 DEF StateOK
      <4>3. ready[k][1] \in Jobs /\ v \in activation[ready[k][1]]
        BY <4>1, <4>2 DEF IInv, WaveInv
      <4> QED BY <4>3 DEF Used
    <3> QED BY <3>2, <3>3, <3>4
  <2>3. status' \in [Verifiers -> C!Statuses \cup {C!Unsettled}]
    <3>1. StateOK'
      BY <1>6, CollectStep DEF IInv
    <3> QED BY <3>1 DEF StateOK, Statuses, C!Statuses, Unsettled, C!Unsettled
  <2>4. Terms' = Terms /\ UNCHANGED <<activation, decisions>>
    BY <1>6 DEF Collect, Terms
  <2>5. C!Settle
    BY <2>1, <2>2, <2>3, <2>4 DEF C!Settle
  <2> QED BY <2>5 DEF C!Next
<1>7. CASE Review
  <2>1. UNCHANGED <<setup, phase, activation, status>> /\ phase = "review"
    BY <1>7 DEF Review
  <2>2. PICK j \in review :
          decisions' =
            IF j \notin Decided /\ Decidable(j)
            THEN [decisions EXCEPT ![j] =
                   [route |-> IF Accepts(Committee(Survivors(j))) THEN "accept" ELSE "reject",
                    committee |-> Committee(Survivors(j))]]
            ELSE decisions
    BY <1>7 DEF Review
  <2>3. j \in Jobs
    BY <1>1 DEF StateOK
  <2>4. CASE j \notin Decided /\ Decidable(j)
    <3> DEFINE committee == Committee(Survivors(j))
               route == IF Accepts(committee) THEN "accept" ELSE "reject"
    <3>1. /\ committee \subseteq {v \in activation[j] : status[v] = "PASS"}
          /\ Cardinality(committee) = Quorum
      BY <2>3, <2>4, CommitteeFacts
    <3>2. decisions' = [decisions EXCEPT ![j] = [route |-> route, committee |-> committee]]
      BY <2>2, <2>4
    <3>3. route \in {"accept", "reject"}
      OBVIOUS
    <3> HIDE DEF committee, route
    <3>4. (phase \notin StoppedPhases) /\ (phase \notin StoppedPhases)' = (phase \notin StoppedPhases)
      BY <2>1 DEF StoppedPhases
    <3>5. decisions[j] = C!Undecided
      BY <2>3, <2>4 DEF Decided, IInv, DecisionInv, Deferred, Undecided, C!Undecided
    <3>6. Terms' = Terms /\ UNCHANGED <<activation, status>>
      BY <2>1 DEF Terms
    <3>7. UNCHANGED <<Terms, activation, status, phase \notin StoppedPhases>>
      BY <3>4, <3>6
    <3>8. \A v \in committee : status[v] = "PASS"
      BY <3>1
    <3>9. C!Decide(j, route, committee)
      BY <3>1, <3>2, <3>4, <3>5, <3>7, <3>8, SameCardinality, Zenon DEF C!Decide
    <3>10. committee \in SUBSET activation[j]
      BY <3>1
    <3> QED BY <2>3, <3>3, <3>9, <3>10 DEF C!Next
  <2>5. CASE ~(j \notin Decided /\ Decidable(j))
    BY <1>2, <2>1, <2>2, <2>5
  <2> QED BY <2>4, <2>5
<1>8. CASE NextWave
  <2>1. (phase' = "done" /\ Defer) \/ (phase' = "wave" /\ UNCHANGED decisions)
    BY <1>8 DEF NextWave
  <2>2. phase = "review" /\ UNCHANGED <<setup, activation, status>>
    BY <1>8 DEF NextWave, WaitingForSelection
  <2>3. CASE phase' = "done" /\ Defer
    BY <2>2, <2>3, DeferCloses DEF C!Next
  <2>4. CASE phase' = "wave" /\ UNCHANGED decisions
    BY <1>2, <2>2, <2>4 DEF StoppedPhases
  <2> QED BY <2>1, <2>3, <2>4
<1>9. CASE Return
  BY <1>9, DeferCloses DEF Return, C!Next
<1>10. CASE MemberRaises
  BY <1>3, <1>10 DEF MemberRaises, Executing, StoppedPhases, C!Next
<1>11. CASE Stopped \/ UNCHANGED vars
  BY <1>2, <1>11 DEF Stopped, vars
<1> QED BY <1>4, <1>5, <1>6, <1>7, <1>8, <1>9, <1>10, <1>11 DEF Next, Step

(* execute_recovery implements the contract: identities are hired within   *)
(* the budget for one job, settle once, stand behind a decision only when  *)
(* they passed, and are all settled when the call returns.                 *)
THEOREM ContractKept == Spec => Contract
<1> QED BY InitRefines, NextRefines, Invariance, PTL DEF Spec, Contract, C!Spec

-------------------------------------------------------------------------------
(* The objective of the matching                                           *)

(* The largest of some values and zero.                                    *)
LEMMA LargestIs ==
  ASSUME NEW f, NEW S, IsFiniteSet(S), \A x \in S : f[x] \in Int
  PROVE  LET values == {f[x] : x \in S} \cup {0}
         IN  Max(values) \in values /\ \A y \in values : Max(values) >= y
<1> DEFINE Values(s) == {f[x] : x \in s} \cup {0}
           Good == {s \in SUBSET S : \E m \in Values(s) : \A y \in Values(s) : m >= y}
<1>1. {} \in Good
  BY DEF Good
<1>2. ASSUME NEW s \in SUBSET S, s # {}, \A x \in s : s \ {x} \in Good PROVE s \in Good
  <2>1. PICK x \in s : TRUE
    BY <1>2
  <2>2. PICK m \in Values(s \ {x}) : \A y \in Values(s \ {x}) : m >= y
    BY <1>2, <2>1
  <2>3. f[x] \in Int /\ m \in Int /\ \A y \in Values(s) : y \in Int
    BY <2>1, <2>2
  <2>4. Values(s) = Values(s \ {x}) \cup {f[x]}
    BY <2>1
  <2> HIDE DEF Values
  <2>5. CASE m >= f[x]
    BY <2>2, <2>3, <2>4, <2>5
  <2>6. CASE f[x] >= m
    <3>1. \A y \in Values(s) : f[x] >= y
      BY <2>2, <2>3, <2>4, <2>6
    <3> QED  BY <2>4, <3>1
  <2> QED  BY <2>3, <2>5, <2>6
<1>3. S \in Good
  <2> HIDE DEF Good
  <2> QED  BY <1>1, <1>2, AllSubsets
<1> QED  BY <1>3 DEF Max

(* A larger majority is no less reliable, if even ones are left out.       *)
LEMMA ReliabilityGrows ==
  ASSUME NEW n \in 0..(MaxCommittee - 1)
  PROVE  /\ Reliability(n, 3) \in Int /\ Reliability(n + 1, 3) \in Int
         /\ Reliability(n + 1, 3) >= Reliability(n, 3)
<1> DEFINE Worths(m) == {Success[size] : size \in OddSizes(m)} \cup {0}
<1>1. \A m \in 0..MaxCommittee :
        /\ Max(Worths(m)) \in Worths(m) /\ Worths(m) \subseteq Int
        /\ \A y \in Worths(m) : Max(Worths(m)) >= y
  <2> SUFFICES ASSUME NEW m \in 0..MaxCommittee
               PROVE  /\ Max(Worths(m)) \in Worths(m) /\ Worths(m) \subseteq Int
                      /\ \A y \in Worths(m) : Max(Worths(m)) >= y
    OBVIOUS
  <2>1. OddSizes(m) \in SUBSET (1..m) /\ IsFiniteSet(1..m)
    BY FS_Interval DEF OddSizes, MaxCommittee
  <2>2. IsFiniteSet(OddSizes(m))
    BY <2>1, FS_Subset
  <2>3. \A size \in OddSizes(m) : Success[size] \in Int
    <3>1. Success \in [0..9 -> Nat]
      BY SuccessAssumption DEF MaxCommittee
    <3>2. \A size \in OddSizes(m) : size \in 0..9
      BY <2>1 DEF MaxCommittee
    <3> QED  BY <3>1, <3>2
  <2> QED  BY <2>2, <2>3, LargestIs
<1>2. n \in 0..MaxCommittee /\ n + 1 \in 0..MaxCommittee
  BY DEF MaxCommittee
<1>3. Worths(n) \subseteq Worths(n + 1)
  BY DEF OddSizes, MaxCommittee
<1>4. Reliability(n, 3) = Max(Worths(n)) /\ Reliability(n + 1, 3) = Max(Worths(n + 1))
  BY DEF Reliability
<1> HIDE DEF Worths
<1>5. Max(Worths(n)) \in Worths(n + 1) /\ Max(Worths(n)) \in Int
  BY <1>1, <1>2, <1>3
<1>6. Max(Worths(n + 1)) >= Max(Worths(n)) /\ Max(Worths(n + 1)) \in Int
  BY <1>1, <1>2, <1>5
<1> QED  BY <1>4, <1>5, <1>6

(* What the key says of one job.                                           *)
SizeIn(wave, members, j) == members[j] + (IF j \in DOMAIN wave THEN 1 ELSE 0)
MissingIn(wave, open, members) ==
  [j \in open |-> Max({0, 3 - SizeIn(wave, members, j)})]
GapsIn(wave, open, members) ==
  {JobTarget - Reliability(SizeIn(wave, members, j), 3) : j \in open} \cup {0}
UnreachedIn(wave, open, members) ==
  {j \in open : \/ SizeIn(wave, members, j) < 3
                \/ Reliability(SizeIn(wave, members, j), 3) < JobTarget}

LEMMA KeyIs ==
  ASSUME NEW wave, NEW open, NEW members
  PROVE  MatchingKey(wave, open, members, 3) =
           <<Cardinality(UnreachedIn(wave, open, members)), Max(GapsIn(wave, open, members)),
             SumOf(MissingIn(wave, open, members), open), Cardinality(DOMAIN wave)>>
BY DEF MatchingKey, UnreachedIn, GapsIn, MissingIn, SumOf, SizeIn

LEMMA LargerIs ==
  ASSUME NEW x \in Int
  PROVE  Max({0, x}) = IF x >= 0 THEN x ELSE 0
<1>1. \E m \in {0, x} : \A y \in {0, x} : m >= y
  OBVIOUS
<1>2. Max({0, x}) \in {0, x} /\ \A y \in {0, x} : Max({0, x}) >= y
  BY <1>1 DEF Max
<1> QED  BY <1>2

(* A report for a job that has fewer than three is better than no wave:    *)
(* it costs an assignment, which counts after what it brings.              *)
LEMMA OneIsPreferred ==
  ASSUME NEW open \in SUBSET Jobs, NEW members, \A h \in open : members[h] \in 0..MaxCommittee,
         NEW j \in open, members[j] < 3,
         NEW wave, DOMAIN wave = {}, NEW one, DOMAIN one = {j}
  PROVE  ~Preferred(<<wave, MatchingKey(wave, open, members, 3)>>,
                    <<one, MatchingKey(one, open, members, 3)>>)
<1>1. IsFiniteSet(open)
  BY JobsAssumption, FS_Subset
<1>2. /\ SizeIn(wave, members, j) = members[j] /\ SizeIn(one, members, j) = members[j] + 1
      /\ members[j] \in 0..2
  BY DEF SizeIn
<1>3. \A h \in open : SizeIn(wave, members, h) = members[h]
  BY DEF SizeIn, MaxCommittee
<1>4. \A h \in open \ {j} : SizeIn(one, members, h) = members[h]
  BY DEF SizeIn, MaxCommittee
<1>5. /\ \A h \in open : Reliability(SizeIn(wave, members, h), 3) \in Int
      /\ \A h \in open : Reliability(SizeIn(one, members, h), 3) \in Int
      /\ Reliability(SizeIn(one, members, j), 3) >= Reliability(SizeIn(wave, members, j), 3)
  <2>1. \A n \in 0..MaxCommittee : Reliability(n, 3) \in Int
    <3> SUFFICES ASSUME NEW n \in 0..MaxCommittee PROVE Reliability(n, 3) \in Int
      OBVIOUS
    <3>1. CASE n = 0
      <4>1. 0 \in 0..(MaxCommittee - 1)
        BY DEF MaxCommittee
      <4> QED  BY <3>1, <4>1, ReliabilityGrows
    <3>2. CASE n # 0
      <4>1. n - 1 \in 0..(MaxCommittee - 1) /\ (n - 1) + 1 = n
        BY <3>2 DEF MaxCommittee
      <4>2. Reliability((n - 1) + 1, 3) \in Int
        BY <4>1, ReliabilityGrows
      <4> QED  BY <4>1, <4>2
    <3> QED  BY <3>1, <3>2
  <2>2. members[j] \in 0..(MaxCommittee - 1) /\ members[j] + 1 \in 0..MaxCommittee
    BY <1>2 DEF MaxCommittee
  <2>3. Reliability(members[j] + 1, 3) >= Reliability(members[j], 3)
    BY <2>2, ReliabilityGrows
  <2> QED  BY <1>2, <1>3, <1>4, <2>1, <2>2, <2>3
<1>6. Cardinality(UnreachedIn(one, open, members)) <= Cardinality(UnreachedIn(wave, open, members))
  <2>1. j \in UnreachedIn(wave, open, members)
    BY <1>2 DEF UnreachedIn
  <2>2. UnreachedIn(one, open, members) \in SUBSET UnreachedIn(wave, open, members)
    BY <1>3, <1>4, <2>1 DEF UnreachedIn
  <2>3. UnreachedIn(wave, open, members) \in SUBSET open
    BY DEF UnreachedIn
  <2> QED  BY <1>1, <2>2, <2>3, FS_Subset
<1>7. /\ Cardinality(UnreachedIn(one, open, members)) \in Nat
      /\ Cardinality(UnreachedIn(wave, open, members)) \in Nat
  BY <1>1, FS_Subset, FS_CardinalityType DEF UnreachedIn
<1>8. /\ Max(GapsIn(one, open, members)) \in Int /\ Max(GapsIn(wave, open, members)) \in Int
      /\ Max(GapsIn(one, open, members)) <= Max(GapsIn(wave, open, members))
  <2> DEFINE gap(w) == [h \in open |-> JobTarget - Reliability(SizeIn(w, members, h), 3)]
  <2>1. GapsIn(wave, open, members) = {gap(wave)[h] : h \in open} \cup {0}
    BY DEF GapsIn
  <2>2. GapsIn(one, open, members) = {gap(one)[h] : h \in open} \cup {0}
    BY DEF GapsIn
  <2>3. \A h \in open : gap(wave)[h] \in Int /\ gap(one)[h] \in Int /\ gap(one)[h] <= gap(wave)[h]
    BY <1>3, <1>4, <1>5 DEF JobTarget
  <2> HIDE DEF gap
  <2>4. /\ Max(GapsIn(wave, open, members)) \in GapsIn(wave, open, members)
        /\ \A y \in GapsIn(wave, open, members) : Max(GapsIn(wave, open, members)) >= y
    BY <1>1, <2>1, <2>3, LargestIs
  <2>5. Max(GapsIn(one, open, members)) \in GapsIn(one, open, members)
    BY <1>1, <2>2, <2>3, LargestIs
  <2>6. CASE Max(GapsIn(one, open, members)) = 0
    <3>1. 0 \in GapsIn(wave, open, members)
      BY <2>1
    <3> QED  BY <2>1, <2>3, <2>4, <2>6, <3>1
  <2>7. ASSUME NEW h \in open, Max(GapsIn(one, open, members)) = gap(one)[h]
        PROVE  /\ Max(GapsIn(one, open, members)) \in Int /\ Max(GapsIn(wave, open, members)) \in Int
               /\ Max(GapsIn(one, open, members)) <= Max(GapsIn(wave, open, members))
    <3>1. Max(GapsIn(wave, open, members)) >= gap(wave)[h]
      BY <2>1, <2>4
    <3>2. gap(wave)[h] \in Int /\ gap(one)[h] \in Int /\ gap(one)[h] <= gap(wave)[h]
      BY <2>3
    <3>3. Max(GapsIn(wave, open, members)) \in Int
      <4>1. GapsIn(wave, open, members) \subseteq Int
        BY <2>1, <2>3
      <4> QED  BY <2>4, <4>1
    <3> QED  BY <2>7, <3>1, <3>2, <3>3
  <2>8. Max(GapsIn(one, open, members)) = 0 \/ \E h \in open : Max(GapsIn(one, open, members)) = gap(one)[h]
    BY <2>2, <2>5
  <2> QED  BY <2>6, <2>7, <2>8, Zenon
<1>9. /\ SumOf(MissingIn(one, open, members), open) \in Nat
      /\ SumOf(MissingIn(wave, open, members), open) \in Nat
      /\ SumOf(MissingIn(one, open, members), open) < SumOf(MissingIn(wave, open, members), open)
  <2> DEFINE a == MissingIn(one, open, members)
             b == MissingIn(wave, open, members)
             R == open \ {j}
  <2>1. \A h \in open : b[h] = IF 3 - members[h] >= 0 THEN 3 - members[h] ELSE 0
    BY <1>3, LargerIs DEF MissingIn, MaxCommittee
  <2>2. \A h \in R : a[h] = b[h]
    BY <1>3, <1>4 DEF MissingIn
  <2>3. a[j] = 3 - (members[j] + 1)
    <3>1. a[j] = Max({0, 3 - SizeIn(one, members, j)})
      BY DEF MissingIn
    <3>2. 3 - (members[j] + 1) \in Int /\ 3 - (members[j] + 1) >= 0
      BY <1>2
    <3> QED  BY <1>2, <3>1, <3>2, LargerIs
  <2>4. \A h \in open : b[h] \in Nat
    BY <2>1 DEF MaxCommittee
  <2>5. \A h \in open : a[h] \in Nat
    BY <1>2, <2>2, <2>3, <2>4
  <2> HIDE DEF a, b
  <2>6. Counted(a, open) /\ Counted(b, open) /\ Counted(b, R) /\ IsFiniteSet(R)
    BY <1>1, <2>4, <2>5, FS_Subset DEF Counted
  <2>7. SumOf(a, R) = SumOf(b, R)
    <3>1. Cardinality(R) \in Nat /\ SumOf(b, R) \in Nat
      BY <1>1, <2>6, FS_CardinalityType, SumOfOneMore
    <3>2. \A h \in R : a[h] = b[h] + 0
      BY <2>2, <2>4
    <3>3. SumOf(a, R) = SumOf(b, R) + Cardinality(R) * 0
      BY <2>6, <3>2, SumOfShifted
    <3> QED  BY <3>1, <3>3
  <2>8. SumOf(a, open) = a[j] + SumOf(a, R) /\ SumOf(b, open) = b[j] + SumOf(b, R)
        /\ SumOf(b, R) \in Nat
    BY <1>1, <2>6, SumOfOneMore
  <2>9. a[j] < b[j] /\ a[j] \in Nat /\ b[j] \in Nat
    BY <1>2, <2>1, <2>3, <2>4, <2>5
  <2>10. SumOf(a, open) \in Nat /\ SumOf(b, open) \in Nat /\ SumOf(a, open) < SumOf(b, open)
    BY <2>7, <2>8, <2>9
  <2> QED  BY <2>10 DEF a, b
<1> DEFINE k == MatchingKey(wave, open, members, 3)
           l == MatchingKey(one, open, members, 3)
<1>10. /\ DOMAIN k = 1..4 /\ DOMAIN l = 1..4
       /\ k[1] = Cardinality(UnreachedIn(wave, open, members))
       /\ l[1] = Cardinality(UnreachedIn(one, open, members))
       /\ k[2] = Max(GapsIn(wave, open, members)) /\ l[2] = Max(GapsIn(one, open, members))
       /\ k[3] = SumOf(MissingIn(wave, open, members), open)
       /\ l[3] = SumOf(MissingIn(one, open, members), open)
  <2>1. k = <<Cardinality(UnreachedIn(wave, open, members)), Max(GapsIn(wave, open, members)),
              SumOf(MissingIn(wave, open, members), open), Cardinality(DOMAIN wave)>>
    BY KeyIs
  <2>2. l = <<Cardinality(UnreachedIn(one, open, members)), Max(GapsIn(one, open, members)),
              SumOf(MissingIn(one, open, members), open), Cardinality(DOMAIN one)>>
    BY KeyIs
  <2> HIDE DEF k, l
  <2> QED  BY <2>1, <2>2
<1> HIDE DEF k, l
<1>11. l[1] <= k[1] /\ l[2] <= k[2] /\ l[3] < k[3] /\ k[1] \in Int /\ l[1] \in Int /\ k[2] \in Int
       /\ l[2] \in Int /\ k[3] \in Int /\ l[3] \in Int
  BY <1>6, <1>7, <1>8, <1>9, <1>10
<1>12. ~LexLess(k, l)
  <2> SUFFICES ASSUME NEW i \in 1..4, k[i] < l[i], \A m \in 1..(i - 1) : k[m] = l[m] PROVE FALSE
    BY <1>10 DEF LexLess
  <2>1. CASE i = 1 \/ i = 2 \/ i = 3
    BY <1>11, <2>1
  <2>2. CASE i = 4
    <3>1. 3 \in 1..(i - 1)
      BY <2>2
    <3> QED  BY <1>11, <3>1
  <2> QED  BY <2>1, <2>2
<1>13. k # l
  BY <1>11
<1> QED  BY <1>12, <1>13 DEF Preferred, k, l
-------------------------------------------------------------------------------
(* Why a call stops                                                        *)

(* What the wave still has to consider is of different identities, none    *)
(* of which was activated.                                                 *)
QueueInv ==
  phase = "wave" =>
    /\ \A pair \in queue : pair[2] \notin Used
    /\ \A pair, other \in queue : pair[2] = other[2] => pair = other

(* Until the deadline a job that was looked at is decided, or its reports  *)
(* do not decide it.                                                       *)
Unready(j) == ~(Reconstituted(Survivors(j)) /\ Conclusive(Committee(Survivors(j))))
ReviewInv ==
  phase = "review" /\ clock < At => \A j \in Jobs \ review : j \in Decided \/ Unready(j)

(* Nothing is deferred before the call ends.                               *)
OpenInv == phase # "done" => \A j \in Jobs : decisions[j].route # "safe-defer"

StopInv == QueueInv /\ ReviewInv /\ OpenInv /\ StopsForCause

LEMMA StopStarts == Init => StopInv
<1> SUFFICES ASSUME Init PROVE StopInv
  OBVIOUS
<1>1. setup \in Setups /\ Used = {} /\ phase \in {"wave", "done"}
  BY DEF Init, Used
<1>2. \A j \in Jobs : decisions[j] = IF setup.preDefer THEN Deferred ELSE Undecided
  BY DEF Init
<1>3. setup.preDefer <=> phase = "done"
  BY DEF Init
<1>4. QueueInv
  <2> SUFFICES ASSUME phase = "wave" PROVE \A pair, other \in queue : pair[2] = other[2] => pair = other
    BY <1>1 DEF QueueInv
  <2>1. queue = PrimaryPairs
    BY <1>3 DEF Init
  <2> SUFFICES ASSUME NEW pair \in PrimaryPairs, NEW other \in PrimaryPairs, pair[2] = other[2]
               PROVE  pair = other
    BY <2>1
  <2>2. PICK j \in Jobs : \E k \in DOMAIN setup.primary[j] : pair = <<j, setup.primary[j][k]>>
    BY DEF PrimaryPairs
  <2>3. PICK h \in Jobs : \E m \in DOMAIN setup.primary[h] : other = <<h, setup.primary[h][m]>>
    BY DEF PrimaryPairs
  <2> PICK k \in DOMAIN setup.primary[j] : pair = <<j, setup.primary[j][k]>>
    BY <2>2
  <2> PICK m \in DOMAIN setup.primary[h] : other = <<h, setup.primary[h][m]>>
    BY <2>3
  <2>4. setup.primary[j][k] = setup.primary[h][m]
    BY <2>2, <2>3
  <2>5. <<j, k>> = <<h, m>>
    BY <1>1, <2>4, RosterAssumption
  <2> QED  BY <2>2, <2>3, <2>5
<1>5. OpenInv
  BY <1>2, <1>3 DEF OpenInv, Undecided
<1>6. StopsForCause
  BY <1>1, <1>3 DEF StopsForCause, NoDuplicateActivation, DeferredForCause
<1> QED  BY <1>1, <1>4, <1>5, <1>6 DEF StopInv, ReviewInv

(* A controller that selects nothing it can pay for, with an identity free *)
(* for an open job and budget for every job, has reports enough for it.    *)
LEMMA SelectedNothing ==
  ASSUME StateOK, NEW wave \in Selections, DOMAIN wave = {}, setup.policy # "no-recovery",
         setup.policy = "joint-matching" => setup.minimumPassCount >= Quorum,
         NEW j \in Jobs \ Decided, Free(j) # {}
  PROVE  Cardinality(Survivors(j)) >= Quorum
<1> DEFINE open == Jobs \ Decided
           free == [h \in Jobs |-> Free(h)]
           members == [h \in Jobs |-> Cardinality(Survivors(h))]
<1>1. /\ setup.policy \in {"fixed-order", "joint-matching"} /\ setup.minimumPassCount \in {0, 3}
      /\ Quorum \in Nat \ {0}
  BY SetupsAssumption, QuorumAssumption DEF StateOK, Policies
<1>2. CASE setup.policy = "fixed-order"
  <2> DEFINE fixed == [h \in Jobs |-> Compatible(h) \ Used]
  <2>1. wave \in FixedOrder(open, fixed)
    BY <1>2 DEF Selections
  <2> DEFINE choices == fixed[j] \ {wave[h] : h \in {g \in DOMAIN wave : g < j}}
  <2>2. IF choices = {} THEN j \notin DOMAIN wave ELSE j \in DOMAIN wave /\ wave[j] = Min(choices)
    BY <2>1 DEF FixedOrder
  <2>3. choices = Compatible(j) \ Used
    OBVIOUS
  <2>4. Free(j) \subseteq choices
    BY <2>3 DEF Free
  <2> QED  BY <2>2, <2>4
<1>3. CASE setup.policy = "joint-matching"
  <2> DEFINE contested == {h \in open : members[h] < 3 \/ Success[members[h]] < JobTarget}
             options == [h \in contested |-> free[h]]
             keyed == {<<w, MatchingKey(w, contested, members, 3)>> : w \in Matchings(options)}
  <2>1. setup.minimumPassCount = 3 /\ Quorum <= 3
    BY <1>1, <1>3
  <2>2. \A h \in Jobs : members[h] \in 0..MaxCommittee
    <3> SUFFICES ASSUME NEW h \in Jobs PROVE Cardinality(Survivors(h)) \in 0..MaxCommittee
      OBVIOUS
    <3>1. Survivors(h) \in SUBSET Verifiers
      BY DEF Survivors, StateOK
    <3>2. /\ IsFiniteSet(Survivors(h)) /\ Cardinality(Survivors(h)) <= Cardinality(Verifiers)
          /\ Cardinality(Survivors(h)) \in Nat /\ Cardinality(Verifiers) \in Nat
      BY <3>1, VerifiersAssumption, FS_Subset, FS_CardinalityType
    <3>3. Cardinality(Verifiers) <= 9
      BY SuccessAssumption DEF MaxCommittee
    <3> QED  BY <3>2, <3>3 DEF MaxCommittee
  <2>3. SUFFICES ASSUME members[j] < 3 PROVE FALSE
    BY <2>1, <2>2, <1>1 DEF MaxCommittee
  <2>4. wave \in JointMatchings(open, free, members, 3)
    BY <1>3, <2>1 DEF Selections
  <2>5. wave \in BestMatchings(contested, options, members, 3)
    BY <2>4 DEF JointMatchings
  <2>6. wave \in {best[1] : best \in {a \in keyed : \A b \in keyed : Preferred(a, b)}}
    BY <2>5 DEF BestMatchings
  <2>7. PICK v \in Free(j) : TRUE
    OBVIOUS
  <2> DEFINE one == [h \in {j} |-> v]
  <2>8. j \in contested /\ contested \subseteq Jobs
    BY <2>3
  <2>9. one \in Matchings(options)
    <3>1. v \in Verifiers /\ one[j] \in options[j] /\ DOMAIN one = {j}
      BY <2>7, <2>8 DEF Free, Compatible
    <3>2. one \in [{j} -> Verifiers] /\ {j} \in SUBSET DOMAIN options
      BY <2>8, <3>1
    <3>3. one \in UNION {[served -> Verifiers] : served \in SUBSET DOMAIN options}
      <4> HIDE DEF one, options
      <4> QED  BY <3>2
    <3> HIDE DEF one, options
    <3> QED  BY <3>1, <3>3 DEF Matchings
  <2> HIDE DEF contested, options, one, members
  <2>10. <<one, MatchingKey(one, contested, members, 3)>> \in keyed
    BY <2>9
  <2>11. Preferred(<<wave, MatchingKey(wave, contested, members, 3)>>,
                   <<one, MatchingKey(one, contested, members, 3)>>)
    <3>1. PICK best \in keyed : best[1] = wave /\ \A b \in keyed : Preferred(best, b)
      BY <2>6
    <3>2. best = <<wave, MatchingKey(wave, contested, members, 3)>>
      BY <3>1
    <3> QED  BY <2>10, <3>1, <3>2
  <2>12. DOMAIN one = {j}
    BY DEF one
  <2> QED  BY <2>2, <2>3, <2>8, <2>11, <2>12, OneIsPreferred
<1> QED  BY <1>1, <1>2, <1>3

(* A selected wave is of different identities that are free.               *)
LEMMA SelectedFree ==
  ASSUME NEW wave \in Selections, StateOK
  PROVE  /\ DOMAIN wave \subseteq Jobs
         /\ \A j \in DOMAIN wave : wave[j] \notin Used
         /\ \A j, h \in DOMAIN wave : wave[j] = wave[h] => j = h
<1> DEFINE open == Jobs \ Decided
           free == [h \in Jobs |-> Free(h)]
           members == [h \in Jobs |-> Cardinality(Survivors(h))]
           fixed == [h \in Jobs |-> Compatible(h) \ Used]
           contested == {h \in open : members[h] < setup.minimumPassCount
                                      \/ Success[members[h]] < JobTarget}
<1>1. setup.policy \in Policies
  BY SetupsAssumption DEF StateOK
<1>2. PICK options : /\ wave \in Matchings(options) /\ DOMAIN options \subseteq Jobs
                     /\ \A j \in DOMAIN options : options[j] \cap Used = {}
  <2>1. CASE setup.policy = "no-recovery"
    <3>1. wave \in Matchings(<<>>) /\ DOMAIN <<>> = {}
      BY <2>1 DEF Selections
    <3> QED  BY <3>1
  <2>2. CASE setup.policy = "fixed-order"
    <3> DEFINE options == [h \in open |-> fixed[h]]
    <3>1. wave \in FixedOrder(open, fixed)
      BY <2>2 DEF Selections
    <3>2. wave \in Matchings(options)
      BY <3>1 DEF FixedOrder
    <3>3. DOMAIN options \subseteq Jobs /\ \A j \in DOMAIN options : options[j] \cap Used = {}
      OBVIOUS
    <3> HIDE DEF options
    <3> QED  BY <3>2, <3>3
  <2>3. CASE setup.policy = "joint-matching"
    <3> DEFINE options == [h \in contested |-> free[h]]
               keyed == {<<w, MatchingKey(w, contested, members, setup.minimumPassCount)>> :
                           w \in Matchings(options)}
    <3>1. wave \in JointMatchings(open, free, members, setup.minimumPassCount)
      BY <2>3 DEF Selections
    <3>2. wave \in BestMatchings(contested, options, members, setup.minimumPassCount)
      BY <3>1 DEF JointMatchings
    <3>3. wave \in {best[1] : best \in {a \in keyed : \A b \in keyed : Preferred(a, b)}}
      BY <3>2 DEF BestMatchings
    <3>4. DOMAIN options \subseteq Jobs /\ \A j \in DOMAIN options : options[j] \cap Used = {}
      BY DEF Free
    <3> HIDE DEF options, contested, members
    <3>5. wave \in Matchings(options)
      BY <3>3
    <3> QED  BY <3>4, <3>5
  <2> QED  BY <1>1, <2>1, <2>2, <2>3 DEF Policies
<1>3. PICK served \in SUBSET DOMAIN options : wave \in [served -> Verifiers]
  BY <1>2 DEF Matchings
<1>4. /\ \A j \in DOMAIN wave : wave[j] \in options[j]
      /\ \A j, h \in DOMAIN wave : j # h => wave[j] # wave[h]
  BY <1>2 DEF Matchings
<1> QED  BY <1>2, <1>3, <1>4

(* A step that leaves the wave, the reports and the decisions alone keeps  *)
(* the reasons, if it neither ends the call nor starts a wave or a review. *)
LEMMA StillStops ==
  ASSUME StopInv, UNCHANGED <<setup, activation, spent, status, report, decisions>>,
         phase' = phase \/ (phase' = "raised" /\ phase # "done"),
         queue' \subseteq queue, review' = review,
         clock' = clock \/ (clock' \in {At, Past} /\ phase # "done")
  PROVE  StopInv'
<1> USE DEF StopInv
<1>1. QueueInv'
  BY DEF QueueInv, Used
<1>2. ReviewInv'
  <2>1. \A j \in Jobs : Unready(j)' <=> Unready(j)
    BY DEF Unready, Survivors, Reconstituted, Conclusive, Committee, FirstOf, Votes
  <2>2. CASE clock' = clock
    BY <2>1, <2>2 DEF ReviewInv, Decided
  <2>3. CASE clock' \in {At, Past}
    BY <2>3 DEF ReviewInv, At, Past
  <2> QED  BY <2>2, <2>3
<1>3. OpenInv'
  BY DEF OpenInv
<1>4. NoDuplicateActivation'
  BY DEF StopsForCause, NoDuplicateActivation
<1>5. DeferredForCause'
  <2>1. CASE phase' = "done"
    <3>1. /\ \A j \in Jobs : Survivors(j)' = Survivors(j) /\ Free(j)' = Free(j)
                             /\ (OverBudget(j)' <=> OverBudget(j))
          /\ \A j \in Jobs : Conclusive(Committee(Survivors(j)))'
                               <=> Conclusive(Committee(Survivors(j)))
      BY DEF Survivors, Free, Compatible, Used, Quarantined, OverBudget, Conclusive, Committee,
             FirstOf, Votes
    <3>2. phase = "done" /\ clock' = clock
      BY <2>1
    <3> QED  BY <3>1, <3>2 DEF StopsForCause, DeferredForCause
  <2>2. CASE phase' # "done"
    BY <2>2 DEF DeferredForCause
  <2> QED  BY <2>1, <2>2
<1> QED  BY <1>1, <1>2, <1>3, <1>4, <1>5 DEF StopsForCause

(* A call that defers what is open gives its reason.                       *)
LEMMA DefersForCause ==
  ASSUME StopInv, phase = "review", phase' = "done", Defer,
         UNCHANGED <<setup, clock, activation, spent, status, report>>,
         (setup.policy = "joint-matching" => setup.minimumPassCount >= Quorum) =>
           \A j \in Jobs \ Decided :
             \/ setup.policy = "no-recovery" \/ clock >= At
             \/ \E h \in Jobs : OverBudget(h)
             \/ Free(j) = {}
             \/ Cardinality(Survivors(j)) >= Quorum /\ ~Conclusive(Committee(Survivors(j)))
  PROVE  StopInv'
<1>1. QueueInv' /\ ReviewInv' /\ OpenInv' /\ NoDuplicateActivation'
  BY DEF QueueInv, ReviewInv, OpenInv, NoDuplicateActivation
<1>2. DeferredForCause'
  <2>1. SUFFICES ASSUME setup.policy = "joint-matching" => setup.minimumPassCount >= Quorum,
                        NEW j \in Jobs, decisions'[j].route = "safe-defer"
                 PROVE  \/ setup'.preDefer \/ setup'.policy = "no-recovery" \/ clock' >= At
                        \/ \E h \in Jobs : OverBudget(h)'
                        \/ Free(j)' = {}
                        \/ /\ Cardinality(Survivors(j)') >= Quorum
                           /\ ~Conclusive(Committee(Survivors(j)))'
    BY DEF DeferredForCause
  <2>2. j \notin Decided
    <3>1. j \in Decided => decisions'[j] = decisions[j]
      BY DEF Defer
    <3>2. decisions[j].route # "safe-defer"
      BY DEF StopInv, OpenInv
    <3> QED  BY <2>1, <3>1, <3>2
  <2>3. /\ Survivors(j)' = Survivors(j) /\ Free(j)' = Free(j)
        /\ \A h \in Jobs : OverBudget(h)' <=> OverBudget(h)
    BY DEF Survivors, Free, Compatible, Used, Quarantined, OverBudget
  <2>4. Conclusive(Committee(Survivors(j)))' <=> Conclusive(Committee(Survivors(j)))
    BY <2>3 DEF Conclusive, Committee, FirstOf, Votes
  <2> QED  BY <2>1, <2>2, <2>3, <2>4
<1> QED  BY <1>1, <1>2 DEF StopInv, StopsForCause

LEMMA StopNext == IInv /\ StopInv /\ [Next]_vars => StopInv'
<1> SUFFICES ASSUME IInv, StopInv, [Next]_vars PROVE StopInv'
  OBVIOUS
<1>1. StateOK
  BY DEF IInv
<1>2. CASE Skip
  <2>1. queue' \subseteq queue /\ phase' = phase /\ clock' = clock /\ review' = review
        /\ setup' = setup /\ activation' = activation /\ spent' = spent /\ status' = status
        /\ report' = report /\ decisions' = decisions
    BY <1>2 DEF Skip
  <2> QED  BY <2>1, StillStops
<1>3. CASE Reserve
  <2>1. PICK j \in Jobs, v \in Verifiers :
          /\ Considering(j, v) /\ v \in Compatible(j)
          /\ IF v \in Used
             THEN /\ phase' = "duplicate capacity"
                  /\ UNCHANGED <<queue, ready, results, activation, spent>>
             ELSE /\ ~OverBudget(j) /\ clock < At
                  /\ activation' = [activation EXCEPT ![j] = @ \cup {v}]
                  /\ spent' = [spent EXCEPT ![j] = @ + setup.reserve]
                  /\ ready' = Append(ready, <<j, v>>)
                  /\ results' = Append(results, Running)
                  /\ queue' = queue \ {<<j, v>>}
                  /\ phase' = phase
          /\ UNCHANGED <<setup, clock, status, report, review, decisions>>
    BY <1>3 DEF Reserve
  <2>2. phase = "wave" /\ <<j, v>> \in queue
    BY <2>1 DEF Considering
  <2>3. v \notin Used
    BY <2>2 DEF StopInv, QueueInv
  <2>4. /\ phase' = "wave" /\ queue' = queue \ {<<j, v>>} /\ decisions' = decisions
        /\ activation' = [activation EXCEPT ![j] = @ \cup {v}]
    BY <2>1, <2>2, <2>3
  <2>5. \A u \in Used' : u \in Used \/ u = v
    BY <1>1, <2>4 DEF Used, StateOK
  <2>6. QueueInv'
    BY <2>2, <2>4, <2>5 DEF StopInv, QueueInv
  <2> QED  BY <2>2, <2>4, <2>6 DEF StopInv, ReviewInv, OpenInv, StopsForCause, NoDuplicateActivation,
                                   DeferredForCause
<1>4. CASE WaveEnds
  <2>1. phase = "wave" /\ phase' = "review" /\ review' = Jobs /\ decisions' = decisions
    BY <1>4 DEF WaveEnds
  <2> QED  BY <2>1 DEF StopInv, QueueInv, ReviewInv, OpenInv, StopsForCause, NoDuplicateActivation,
                       DeferredForCause
<1>5. CASE Finish
  <2>1. queue' = queue /\ phase' = phase /\ clock' = clock /\ review' = review
        /\ setup' = setup /\ activation' = activation /\ spent' = spent /\ status' = status
        /\ report' = report /\ decisions' = decisions
    BY <1>5 DEF Finish
  <2> QED  BY <2>1, StillStops
<1>6. CASE Collect
  <2>1. phase = "wave" /\ phase' = "wave" /\ queue' = queue /\ activation' = activation
        /\ decisions' = decisions
    BY <1>6 DEF Collect, Executing
  <2>2. Used' = Used
    BY <2>1 DEF Used
  <2> QED  BY <2>1, <2>2 DEF StopInv, QueueInv, ReviewInv, OpenInv, StopsForCause,
                             NoDuplicateActivation, DeferredForCause
<1>7. CASE Review
  <2>1. PICK j \in review :
          /\ review' = review \ {j}
          /\ decisions' =
               IF j \notin Decided /\ Decidable(j)
               THEN [decisions EXCEPT ![j] =
                      [route |-> IF Accepts(Committee(Survivors(j))) THEN "accept" ELSE "reject",
                       committee |-> Committee(Survivors(j))]]
               ELSE decisions
    BY <1>7 DEF Review
  <2>2. /\ phase = "review" /\ phase' = "review"
        /\ UNCHANGED <<setup, clock, queue, activation, spent, status, report>>
    BY <1>7 DEF Review
  <2>3. \A h \in Jobs : \/ decisions'[h] = decisions[h]
                        \/ decisions'[h].route \in {"accept", "reject"}
    BY <1>1, <2>1 DEF StateOK
  <2>4. j \in Decided' \/ Unready(j) \/ ~(clock <= At)
    <3>1. CASE j \notin Decided /\ Decidable(j)
      <4>1. decisions'[j].route \in {"accept", "reject"} /\ j \in Jobs
        BY <1>1, <2>1, <3>1 DEF StateOK
      <4> QED  BY <4>1 DEF Decided
    <3>2. CASE ~(j \notin Decided /\ Decidable(j))
      <4>1. decisions' = decisions
        BY <2>1, <3>2
      <4> QED  BY <3>2, <4>1 DEF Decided, Decidable, Unready
    <3> QED  BY <3>1, <3>2
  <2>5. \A h \in Jobs : Unready(h)' <=> Unready(h)
    BY <2>2 DEF Unready, Survivors, Reconstituted, Conclusive, Committee, FirstOf, Votes
  <2>6. \A h \in Decided : h \in Decided'
    BY <2>3 DEF Decided
  <2>7. ReviewInv'
    <3> SUFFICES ASSUME clock < At, NEW h \in Jobs \ review' PROVE h \in Decided' \/ Unready(h)'
      BY <2>2 DEF ReviewInv
    <3>1. CASE h = j
      <4>1. clock <= At
        BY <1>1 DEF StateOK, Before, At, Past
      <4> QED  BY <2>4, <2>5, <3>1, <4>1
    <3>2. CASE h # j
      <4>1. h \in Jobs \ review
        BY <2>1, <3>2
      <4>2. h \in Decided \/ Unready(h)
        BY <2>2, <4>1 DEF StopInv, ReviewInv
      <4> QED  BY <2>5, <2>6, <4>2
    <3> QED  BY <3>1, <3>2
  <2>8. OpenInv'
    BY <2>2, <2>3 DEF StopInv, OpenInv
  <2> QED  BY <2>2, <2>7, <2>8 DEF StopInv, QueueInv, StopsForCause, NoDuplicateActivation,
                                   DeferredForCause
<1>8. CASE NextWave
  <2>1. PICK wave \in Selections :
          /\ queue' = WithinBudget(wave)
          /\ IF WithinBudget(wave) = {}
             THEN phase' = "done" /\ Defer
             ELSE phase' = "wave" /\ UNCHANGED decisions
    BY <1>8 DEF NextWave
  <2>2. /\ phase = "review" /\ review = {} /\ clock < At
        /\ UNCHANGED <<setup, clock, activation, spent, status, report, review>>
    BY <1>8 DEF NextWave, WaitingForSelection
  <2>3. /\ DOMAIN wave \subseteq Jobs
        /\ \A j \in DOMAIN wave : wave[j] \notin Used
        /\ \A j, h \in DOMAIN wave : wave[j] = wave[h] => j = h
    BY <1>1, SelectedFree
  <2>4. CASE WithinBudget(wave) # {}
    <3>1. phase' = "wave" /\ decisions' = decisions /\ queue' = WithinBudget(wave) /\ Used' = Used
      BY <2>1, <2>2, <2>4 DEF Used
    <3>2. QueueInv'
      BY <2>3, <3>1 DEF QueueInv, WithinBudget
    <3> QED  BY <2>2, <3>1, <3>2 DEF StopInv, ReviewInv, OpenInv, StopsForCause,
                                     NoDuplicateActivation, DeferredForCause
  <2>5. CASE WithinBudget(wave) = {}
    <3>1. phase' = "done" /\ Defer
      BY <2>1, <2>5
    <3>2. ASSUME setup.policy = "joint-matching" => setup.minimumPassCount >= Quorum,
                 NEW j \in Jobs \ Decided, setup.policy # "no-recovery",
                 \A h \in Jobs : ~OverBudget(h), Free(j) # {}
          PROVE  Cardinality(Survivors(j)) >= Quorum /\ ~Conclusive(Committee(Survivors(j)))
      <4>1. DOMAIN wave = {}
        BY <2>3, <2>5, <3>2 DEF WithinBudget
      <4>2. Cardinality(Survivors(j)) >= Quorum
        BY <1>1, <3>2, <4>1, SelectedNothing
      <4>3. Unready(j)
        BY <2>2 DEF StopInv, ReviewInv
      <4> QED  BY <4>2, <4>3 DEF Unready, Reconstituted
    <3> QED  BY <2>2, <3>1, <3>2, DefersForCause
  <2> QED  BY <2>4, <2>5
<1>9. CASE Return
  <2>1. /\ phase = "review" /\ phase' = "done" /\ Defer /\ (Decided = Jobs \/ clock >= At)
        /\ setup' = setup /\ clock' = clock /\ activation' = activation /\ spent' = spent
        /\ status' = status /\ report' = report
    BY <1>9 DEF Return
  <2> QED  BY <2>1, DefersForCause
<1>10. CASE Tick
  <2>1. /\ queue' = queue /\ phase' = phase /\ review' = review /\ setup' = setup
        /\ activation' = activation /\ spent' = spent /\ status' = status
        /\ report' = report /\ decisions' = decisions
        /\ phase \notin StoppedPhases /\ clock' \in {At, Past}
    BY <1>10 DEF Tick
  <2>2. phase # "done"
    BY <2>1 DEF StoppedPhases
  <2> QED  BY <2>1, <2>2, StillStops
<1>11. CASE MemberRaises
  <2>1. /\ queue' = queue /\ phase' = "raised" /\ clock' = clock /\ review' = review
        /\ setup' = setup /\ activation' = activation /\ spent' = spent /\ status' = status
        /\ report' = report /\ decisions' = decisions /\ phase # "done"
    BY <1>11 DEF MemberRaises, Executing
  <2> QED  BY <2>1, StillStops
<1>12. CASE UNCHANGED vars
  <2>1. queue' = queue /\ phase' = phase /\ clock' = clock /\ review' = review
        /\ setup' = setup /\ activation' = activation /\ spent' = spent /\ status' = status
        /\ report' = report /\ decisions' = decisions
    BY <1>12 DEF vars
  <2> QED  BY <2>1, StillStops
<1>13. CASE Stopped
  BY <1>12, <1>13 DEF Stopped
<1> QED  BY <1>2, <1>3, <1>4, <1>5, <1>6, <1>7, <1>8, <1>9, <1>10, <1>11, <1>12, <1>13
         DEF Next, Step

(* execute_recovery stops short of a decision only for the certificate,    *)
(* the deadline, a used-up budget, a job nobody is left for or a quorum    *)
(* that does not decide, and its guard against activating an identity      *)
(* twice never raises.                                                     *)
THEOREM StopsForCauseAlways == Spec => []StopsForCause
<1>1. StopInv => StopsForCause
  BY DEF StopInv
<1> QED  BY <1>1, Invariance, StopStarts, StopNext, PTL DEF Spec
===============================================================================
