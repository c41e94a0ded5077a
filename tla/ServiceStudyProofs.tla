-------------------------- MODULE ServiceStudyProofs --------------------------
(***************************************************************************)
(* Theorems about the study lifecycle, for every set of datasets and units *)
(* and any number of stops and continuations; about the ledger its         *)
(* calibration is paid from and the admission it decides, for all amounts, *)
(* levels and error probabilities; and about the exchange that arbitrates  *)
(* a group, for all checkpoints and tolerances.                            *)
(***************************************************************************)
EXTENDS ServiceStudy, PaidCalibration, NativeArbitration, SetSums, FiniteSetTheorems, TLAPS

-------------------------------------------------------------------------------
(* The epoch's operations keep it an epoch                                 *)

Epochs == [states: StateMaps, closed: BOOLEAN, published: BOOLEAN]

LEMMA StateMapsAre ==
  ASSUME NEW f, f \in StateMaps
  PROVE  /\ DOMAIN f \in SUBSET Assignments
         /\ f \in [DOMAIN f -> EpochStates]
BY DEF StateMaps

LEMMA StateMapsHave ==
  ASSUME NEW ids \in SUBSET Assignments, NEW f, f \in [ids -> EpochStates]
  PROVE  f \in StateMaps
BY DEF StateMaps

LEMMA BegunIs ==
  ASSUME NEW e \in Epochs, NEW a, MayBegin(e, a)
  PROVE  Begun(e, a) \in Epochs
<1>1. e.states \in StateMaps
  BY DEF Epochs
<1>2. [e.states EXCEPT ![a] = "RUNNING"] \in [DOMAIN e.states -> EpochStates]
  BY <1>1, StateMapsAre DEF EpochStates
<1>3. [e.states EXCEPT ![a] = "RUNNING"] \in StateMaps
  BY <1>1, <1>2, StateMapsAre, StateMapsHave
<1>4. Begun(e, a) = [e EXCEPT !.states = [e.states EXCEPT ![a] = "RUNNING"]]
  BY DEF Begun, Epochs
<1> QED BY <1>3, <1>4 DEF Epochs

LEMMA FinishedIs ==
  ASSUME NEW e \in Epochs, NEW a, NEW status, MayFinish(e, a, status)
  PROVE  Finished(e, a, status) \in Epochs
<1>1. e.states \in StateMaps
  BY DEF Epochs
<1>2. [e.states EXCEPT ![a] = status] \in [DOMAIN e.states -> EpochStates]
  BY <1>1, StateMapsAre DEF EpochStates, MayFinish
<1>3. [e.states EXCEPT ![a] = status] \in StateMaps
  BY <1>1, <1>2, StateMapsAre, StateMapsHave
<1>4. Finished(e, a, status) = [e EXCEPT !.states = [e.states EXCEPT ![a] = status]]
  BY DEF Finished, Epochs
<1> QED BY <1>3, <1>4 DEF Epochs

LEMMA ClosedIs ==
  ASSUME NEW e \in Epochs
  PROVE  Closed(e) \in Epochs /\ Released(Closed(e)) \in Epochs
<1> DEFINE shut == [i \in DOMAIN e.states |->
                      IF e.states[i] = "PLANNED" THEN "NOT_ACTIVATED" ELSE e.states[i]]
<1>1. e.states \in StateMaps
  BY DEF Epochs
<1>2. shut \in [DOMAIN e.states -> EpochStates]
  BY <1>1, StateMapsAre DEF EpochStates
<1>3. shut \in StateMaps
  BY <1>1, <1>2, StateMapsAre, StateMapsHave
<1>4. Closed(e) = [e EXCEPT !.closed = TRUE, !.states = shut]
  BY DEF Closed
<1>5. Closed(e) \in Epochs
  BY <1>3, <1>4 DEF Epochs
<1> QED BY <1>5 DEF Released, Epochs

LEMMA ReplayedIs ==
  ASSUME NEW ids \in SUBSET Assignments,
         NEW results \in [Assignments -> Settlements \cup {None}]
  PROVE  Replayed(ids, results) \in Epochs
<1> DEFINE states == [a \in ids |-> IF results[a] # None THEN results[a] ELSE "PLANNED"]
<1>1. states \in [ids -> EpochStates]
  BY DEF EpochStates
<1>2. states \in StateMaps
  BY <1>1, StateMapsHave
<1>3. Replayed(ids, results) = [NewEpoch(ids) EXCEPT !.states = states]
  BY DEF Replayed
<1> QED BY <1>2, <1>3 DEF NewEpoch, Epochs

LEMMA PlansAre ==
  /\ \A S \in SUBSET Units : UNION {Plan[u] : u \in S} \in SUBSET Assignments
  /\ \A d : Planned(d) \in SUBSET Assignments
BY StudyAssumption DEF Planned, UnitsOf

LEMMA CurrentIs ==
  ASSUME at \in DOMAIN DatasetOrder PROVE Current \in Datasets
BY DEF Current, Datasets

-------------------------------------------------------------------------------
(* Type correctness                                                        *)

LEMMA OrderIs ==
  /\ DatasetOrder \in Seq(Datasets) /\ Len(DatasetOrder) \in Nat
  /\ DOMAIN DatasetOrder = 1..Len(DatasetOrder)
BY OrderAssumption

LEMMA InitTypeOK == Init => TypeOK
<1> SUFFICES ASSUME Init PROVE TypeOK
  OBVIOUS
<1>1. NoService \in [Assignments -> Settlements \cup {None}]
  BY DEF NoService
<1>2. NewEpoch(UNION {Plan[u] : u \in Units}) \in Epochs
  <2> DEFINE ids == UNION {Plan[u] : u \in Units}
             states == [i \in ids |-> "PLANNED"]
  <2>1. ids \in SUBSET Assignments
    BY PlansAre
  <2>2. states \in StateMaps
    <3>1. states \in [ids -> EpochStates]
      BY DEF EpochStates
    <3> QED BY <2>1, <3>1, StateMapsHave
  <2> QED BY <2>2 DEF NewEpoch, Epochs
<1>3. 1 \in 1..(Len(DatasetOrder) + 1) /\ 0 \in 0..MaxStops
  BY OrderIs, StudyAssumption
<1>4. outcome \in [Units -> Outcomes]
  BY DEF Init, Outcomes
<1> QED BY <1>1, <1>2, <1>3, <1>4 DEF Init, TypeOK, Epochs

(* A step that leaves a variable out of consideration keeps its type: the  *)
(* cases below name what each action changes.                              *)
LEMMA StartedTypeOK ==
  ASSUME NEW results \in [Assignments -> Settlements \cup {None}], Started(results)
  PROVE  /\ at' \in 1..(Len(DatasetOrder) + 1) /\ phase' = "start" /\ at' = 1
         /\ epoch' \in Epochs /\ unit' = {} /\ serving' = {}
         /\ service' \in [Assignments -> Settlements \cup {None}]
         /\ unwritten' \in Seq(Assignments) /\ observed' = {}
<1>1. UNION {Plan[u] : u \in Units} \in SUBSET Assignments
  BY PlansAre
<1>2. epoch' \in Epochs
  BY <1>1, ReplayedIs DEF Started
<1>3. 1 \in 1..(Len(DatasetOrder) + 1)
  BY OrderIs
<1>4. NoService \in [Assignments -> Settlements \cup {None}]
  BY DEF NoService
<1> QED BY <1>2, <1>3, <1>4 DEF Started

LEMMA PublicationIs ==
  ASSUME TypeOK, at \in DOMAIN DatasetOrder
  PROVE  Publication \in Publications
<1>1. epoch \in Epochs
  BY DEF TypeOK, Epochs
<1>2. Closed(epoch).states \in StateMaps
  BY <1>1, ClosedIs DEF Epochs
<1> QED BY <1>2, CurrentIs DEF Publication, Publications, TypeOK

(* A dataset is at hand except between datasets.                           *)
InPhase == phase # "start" => at \in DOMAIN DatasetOrder

LEMMA NextInPhase == TypeOK /\ InPhase /\ [Next]_vars => InPhase'
<1> SUFFICES ASSUME TypeOK, InPhase, [Next]_vars PROVE InPhase'
  OBVIOUS
<1> USE DEF InPhase
<1>1. CASE SkipDataset
  BY <1>1 DEF SkipDataset
<1>2. CASE StartDataset
  BY <1>2 DEF StartDataset
<1>3. CASE NextPhase
  BY <1>3 DEF NextPhase
<1>4. CASE EndDataset
  BY <1>4 DEF EndDataset
<1>5. CASE Disclose
  BY <1>5 DEF Disclose, Raise, process
<1>6. CASE Finish \/ WriteRow \/ Refuse \/ UNCHANGED vars
  BY <1>6 DEF Finish, WriteRow, Refuse, vars, process
<1>7. ASSUME NEW u \in Units, UnitStep(u) PROVE InPhase'
  BY <1>7 DEF UnitStep, Hold, Unissued, Issue, FinishUnit, Raise, process
<1>8. ASSUME NEW a \in Assignments, AssignmentStep(a) PROVE InPhase'
  BY <1>8 DEF AssignmentStep, Begin, Admit, Observe, Raise, process
<1>9. CASE Stop
  BY <1>9 DEF Stop, Started
<1>10. ASSUME NEW done \in SUBSET Finalised, NEW shut \in SUBSET Datasets, Continue(done, shut)
       PROVE  InPhase'
  BY <1>10 DEF Continue, Started
<1> QED BY <1>1, <1>2, <1>3, <1>4, <1>5, <1>6, <1>7, <1>8, <1>9, <1>10
        DEF Next, Step, Continuation

LEMMA NextTypeOK == TypeOK /\ InPhase /\ [Next]_vars => TypeOK'
<1> SUFFICES ASSUME TypeOK, InPhase, [Next]_vars PROVE TypeOK'
  OBVIOUS
<1>e. epoch \in Epochs
  BY DEF TypeOK, Epochs
<1>n. NoService \in [Assignments -> Settlements \cup {None}]
  BY DEF NoService
<1>r. Raise => TypeOK'
  BY DEF Raise, TypeOK, root, process, job, ledgers
<1>1. CASE SkipDataset
  <2>1. at' \in 1..(Len(DatasetOrder) + 1)
    BY <1>1, OrderIs DEF SkipDataset
  <2> QED BY <1>1, <2>1 DEF SkipDataset, TypeOK, root, job, ledgers
<1>2. CASE StartDataset
  <2>1. Replayed(Planned(Current), settled) \in Epochs
    BY PlansAre, ReplayedIs DEF TypeOK
  <2>2. answers' \subseteq Units
    BY <1>2 DEF StartDataset, TypeOK
  <2> QED BY <1>2, <2>1, <2>2 DEF StartDataset, TypeOK, Epochs, root, job, ledgers
<1>3. CASE NextPhase
  BY <1>3 DEF NextPhase, TypeOK, root, job, ledgers
<1>4. CASE Finish
  BY <1>4 DEF Finish, TypeOK, root, process, job, ledgers
<1>5. ASSUME NEW u \in Units, Hold(u) PROVE TypeOK'
  <2>1. outcome' \in [Units -> Outcomes]
    BY <1>5 DEF Hold, TypeOK, Outcomes
  <2> QED BY <1>5, <2>1 DEF Hold, TypeOK, process, job, ledgers
<1>6. ASSUME NEW u \in Units, Unissued(u) PROVE TypeOK'
  <2>1. outcome' \in [Units -> Outcomes]
    BY <1>6 DEF Unissued, TypeOK, Outcomes
  <2>2. reserved' \subseteq Assignments /\ observed' \subseteq Assignments
    BY <1>6, StudyAssumption DEF Unissued, Reservations, TypeOK
  <2> QED BY <1>6, <2>1, <2>2 DEF Unissued, TypeOK, job
<1>7. ASSUME NEW u \in Units, Issue(u) PROVE TypeOK'
  <2>1. CASE ~(Plan[u] = {} \/ Covers(epoch, Plan[u]))
    BY <1>7, <2>1, <1>r DEF Issue
  <2>2. CASE Plan[u] = {} \/ Covers(epoch, Plan[u])
    <3>1. reserved' \subseteq Assignments /\ observed' \subseteq Assignments
      BY <1>7, <2>2, StudyAssumption DEF Issue, Reservations, TypeOK
    <3>2. delivered' \subseteq Units /\ answers' \subseteq Units
      BY <1>7, <2>2 DEF Issue, TypeOK
    <3>3. unit' = {u} /\ serving' = serving /\ unit = {}
      BY <1>7, <2>2 DEF Issue, CanStart
    <3>4. serving' = {}
      BY <3>3 DEF TypeOK
    <3> QED BY <1>7, <2>2, <3>1, <3>2, <3>3, <3>4 DEF Issue, TypeOK
  <2> QED BY <2>1, <2>2
<1>8. ASSUME NEW a \in Assignments, Begin(a) PROVE TypeOK'
  <2>1. CASE ~MayBegin(epoch, a)
    BY <1>8, <2>1, <1>r DEF Begin
  <2>2. CASE MayBegin(epoch, a)
    <3>1. epoch' \in Epochs
      BY <1>8, <2>2, <1>e, BegunIs DEF Begin
    <3>2. serving' = {a} /\ \E u \in unit' : a \in Plan[u]
      BY <1>8, <2>2 DEF Begin
    <3>3. serving' = {} \/ \E b \in Assignments : serving' = {b} /\ \E u \in unit' : b \in Plan[u]
      BY <3>2
    <3> QED BY <1>8, <2>2, <3>1, <3>3 DEF Begin, TypeOK, Epochs, root, ledgers
  <2> QED BY <2>1, <2>2
<1>9. ASSUME NEW a \in Assignments, NEW status \in Settlements, Admit(a, status) PROVE TypeOK'
  <2>1. CASE ~MayFinish(epoch, a, status)
    BY <1>9, <2>1, <1>r DEF Admit
  <2>2. CASE MayFinish(epoch, a, status)
    <3>1. epoch' \in Epochs
      BY <1>9, <2>2, <1>e, FinishedIs DEF Admit
    <3>2. service' \in [Assignments -> Settlements \cup {None}] /\ audited' \subseteq Assignments
      BY <1>9, <2>2 DEF Admit, TypeOK
    <3> QED BY <1>9, <2>2, <3>1, <3>2 DEF Admit, TypeOK, Epochs, ledgers
  <2> QED BY <2>1, <2>2
<1>10. ASSUME NEW u \in Units, FinishUnit(u) PROVE TypeOK'
  <2>1. outcome' \in [Units -> Outcomes]
    BY <1>10 DEF FinishUnit, TypeOK, Outcomes
  <2>2. settled' \in [Assignments -> Settlements \cup {None}]
    BY <1>10 DEF FinishUnit, TypeOK
  <2>3. pending' \subseteq Units
    BY <1>10 DEF FinishUnit, TypeOK
  <2> QED BY <1>10, <1>n, <2>1, <2>2, <2>3 DEF FinishUnit, TypeOK
<1>11. CASE Disclose
  <2>0. at \in DOMAIN DatasetOrder
    BY <1>11 DEF Disclose, InPhase
  <2>1. CASE ~MayClose(epoch)
    BY <1>11, <2>1, <1>r DEF Disclose
  <2>2. CASE MayClose(epoch)
    <3>1. epoch' \in Epochs
      BY <1>11, <2>2, <1>e, ClosedIs DEF Disclose
    <3>2. published' \in Seq(Publications)
      <4>1. published \in Seq(Publications) /\ Publication \in Publications
        BY <2>0, PublicationIs DEF TypeOK
      <4>2. published' = Append(published, Publication)
        BY <1>11, <2>2 DEF Disclose
      <4> QED BY <4>1, <4>2
    <3>3. disclosed' \subseteq Units
      BY <1>11, <2>2 DEF Disclose, TypeOK
    <3> QED BY <1>11, <2>2, <3>1, <3>2, <3>3 DEF Disclose, TypeOK, Epochs, job, ledgers
  <2> QED BY <2>1, <2>2
<1>12. ASSUME NEW a \in Assignments, Observe(a) PROVE TypeOK'
  <2>1. CASE a \notin reserved
    BY <1>12, <2>1, <1>r DEF Observe
  <2>2. CASE a \in reserved
    <3>1. unwritten \in Seq(Assignments) /\ unwritten' = Append(unwritten, a)
      BY <1>12, <2>2 DEF Observe, TypeOK
    <3>2. unwritten' \in Seq(Assignments)
      BY <3>1
    <3>3. observed' \subseteq Assignments
      BY <1>12, <2>2 DEF Observe, TypeOK
    <3> QED BY <1>12, <2>2, <3>2, <3>3 DEF Observe, TypeOK, root, job
  <2> QED BY <2>1, <2>2
<1>13. CASE WriteRow
  <2>1. unwritten' \in Seq(Assignments) /\ ledgerRows' \in Seq(Assignments)
    BY <1>13 DEF WriteRow, TypeOK
  <2> QED BY <1>13, <2>1 DEF WriteRow, TypeOK, job
<1>14. CASE EndDataset
  <2>1. at' \in 1..(Len(DatasetOrder) + 1)
    BY <1>14, OrderIs DEF EndDataset, InPhase
  <2> QED BY <1>14, <2>1 DEF EndDataset, TypeOK, root, job
<1>15. CASE Stop
  <2>1. stops' \in 0..MaxStops
    BY <1>15, StudyAssumption DEF Stop, TypeOK
  <2> QED BY <1>15, <1>n, <2>1, StartedTypeOK DEF Stop, TypeOK, Epochs, root
<1>16. ASSUME NEW done \in SUBSET Finalised, NEW shut \in SUBSET Datasets, Continue(done, shut)
       PROVE  TypeOK'
  <2>1. done \subseteq Units
    BY DEF Finalised
  <2>2. outcome' \in [Units -> Outcomes]
    BY <1>16 DEF Continue, TypeOK, Outcomes
  <2>3. settled' \in [Assignments -> Settlements \cup {None}]
    BY <1>16 DEF Continue, TypeOK
  <2>4. delivered' \subseteq Units /\ audited' \subseteq Assignments /\ answers' \subseteq Units
    BY <1>16 DEF Continue, RetainedAudits, TypeOK
  <2>5. published' \in Seq(Publications)
    BY <1>16 DEF Continue, RetainedPublications, TypeOK
  <2>6. pending' \subseteq Units /\ pending' = RestoredJobs(done, shut)
    BY <1>16, <2>1 DEF Continue, RestoredJobs
  <2>7. reserved' \subseteq Assignments
    BY <1>16, <2>6, PlansAre DEF Continue, Reserving
  <2>8. Started(settled')
    BY <1>16 DEF Continue
  <2>9. /\ at' \in 1..(Len(DatasetOrder) + 1) /\ phase' = "start"
        /\ epoch' \in Epochs /\ unit' = {} /\ serving' = {}
        /\ service' \in [Assignments -> Settlements \cup {None}]
        /\ unwritten' \in Seq(Assignments) /\ observed' = {}
    BY <2>3, <2>8, StartedTypeOK
  <2>10. run' = "running" /\ closed' \subseteq Datasets /\ UNCHANGED <<ledgerRows, disclosed, stops>>
    BY <1>16 DEF Continue
  <2> QED BY <2>2, <2>3, <2>4, <2>5, <2>6, <2>7, <2>9, <2>10 DEF TypeOK, Epochs
<1>17. CASE Refuse
  BY <1>17 DEF Refuse, TypeOK, root, process, job, ledgers
<1>18. CASE UNCHANGED vars
  BY <1>18 DEF TypeOK, vars, root, process, job, ledgers
<1> QED BY <1>1, <1>2, <1>3, <1>4, <1>5, <1>6, <1>7, <1>8, <1>9, <1>10, <1>11, <1>12, <1>13,
           <1>14, <1>15, <1>16, <1>17, <1>18
        DEF Next, Step, UnitStep, AssignmentStep, Continuation

(* The study's state has its types, whatever is stopped and continued.     *)
THEOREM TypeInvariance == Spec => [](TypeOK /\ InPhase)
<1>1. Init => TypeOK /\ InPhase
  BY InitTypeOK DEF Init, InPhase
<1>2. TypeOK /\ InPhase /\ [Next]_vars => (TypeOK /\ InPhase)'
  BY NextInPhase, NextTypeOK
<1> QED BY <1>1, <1>2, PTL DEF Spec

-------------------------------------------------------------------------------
(* What has been published, and how far the study is                       *)

Pub == {published[i].dataset : i \in DOMAIN published}
Final(u) == outcome[u] # "PENDING"

(* One publication a dataset; its units have their rows.                   *)
PubInv ==
  /\ Pub \subseteq Datasets
  /\ IsFiniteSet(Pub) /\ Len(published) = Cardinality(Pub)
  /\ \A u \in Units : DatasetOf[u] \in Pub => Final(u)

(* A dataset has rows only after every dataset before it is published.     *)
Frontier ==
  \A u \in Units : \A i, k \in DOMAIN DatasetOrder :
    Final(u) /\ i < k /\ DatasetOrder[k] = DatasetOf[u] => DatasetOrder[i] \in Pub

(* What a running process has passed is what is published.                 *)
Passed ==
  run = "running" =>
    /\ closed \subseteq Pub
    /\ \A i \in DOMAIN DatasetOrder : i < at => DatasetOrder[i] \in Pub
    /\ \A d \in Pub : \/ d \in closed
                      \/ \E i \in DOMAIN DatasetOrder : i < at /\ DatasetOrder[i] = d
                      \/ phase = "observe" /\ d = Current
    /\ phase # "start" =>
         /\ Current \notin closed
         /\ phase = "observe" <=> Current \in Pub
         /\ \A u \in Units : Final(u) => DatasetOf[u] \in Pub \cup {Current}

(* A phase ends when its units have their rows.                            *)
PhaseInv ==
  run = "running" =>
    /\ phase \in {"bridge", "close"} =>
         \A u \in UnitsOf(Current) : u \notin Bridge => Final(u)
    /\ phase = "close" => \A u \in UnitsOf(Current) : Final(u)
    /\ unit # {} => phase \in {"core", "bridge"}
    /\ \A u \in unit : DatasetOf[u] = Current

(* Answers that are held are of units with rows, or of the unit in         *)
(* progress; answers that are out are of published datasets.               *)
AnswersInv ==
  /\ run = "running" =>
       \A u \in answers : DatasetOf[u] \in Pub \/ Final(u) \/ u \in unit
  /\ \A u \in disclosed : DatasetOf[u] \in Pub

(* Calibration rows are of published datasets.                             *)
LedgerInv ==
  /\ \A i \in DOMAIN ledgerRows :
       \E u \in Units : ledgerRows[i] \in Plan[u] /\ DatasetOf[u] \in Pub
  /\ run = "running" =>
       /\ \A i \in DOMAIN unwritten :
            \E u \in Units : unwritten[i] \in Plan[u] /\ DatasetOf[u] \in Pub
       /\ \A u \in pending : Final(u)

StudyInv ==
  /\ TypeOK /\ InPhase
  /\ PubInv /\ Frontier /\ Passed /\ PhaseInv /\ AnswersInv /\ LedgerInv /\ RefusedForCause

Rest ==
  PubInv /\ Frontier /\ Passed /\ PhaseInv /\ AnswersInv /\ LedgerInv /\ RefusedForCause

LEMMA StudyInit == Init => Rest
<1> SUFFICES ASSUME Init PROVE Rest
  OBVIOUS
<1>1. Pub = {} /\ \A u : u \in Units => ~Final(u)
  BY DEF Init, Pub, Final
<1>2. PubInv
  BY <1>1, FS_EmptySet DEF PubInv, Init
<1>3. Frontier /\ AnswersInv /\ LedgerInv /\ RefusedForCause
  BY <1>1 DEF Frontier, AnswersInv, LedgerInv, RefusedForCause, Init
<1>4. Passed
  BY <1>1, OrderIs DEF Passed, Init
<1>5. PhaseInv
  BY DEF PhaseInv, Init
<1> QED BY <1>2, <1>3, <1>4, <1>5 DEF Rest

(* Steps that touch none of this, and the end of a process.                *)
LEMMA Quiet ==
  ASSUME StudyInv,
         UNCHANGED <<outcome, published, ledgerRows, run, closed, at, phase, answers, unit,
                     pending, unwritten, disclosed>>
  PROVE  Rest'
<1>1. UNCHANGED <<Pub, RefusedForCause, Current>> /\ \A u : Final(u)' <=> Final(u)
  BY DEF Pub, Final, RefusedForCause, Current, FullyCalibrated, RowsOf
<1> QED BY <1>1 DEF StudyInv, Rest, PubInv, Frontier, Passed, PhaseInv, AnswersInv, LedgerInv

LEMMA Halted ==
  ASSUME StudyInv, run' \notin {"running", "refused"},
         UNCHANGED <<outcome, published, ledgerRows, disclosed>>
  PROVE  Rest'
<1>1. Pub' = Pub /\ \A u : Final(u)' <=> Final(u)
  BY DEF Pub, Final
<1> QED BY <1>1 DEF StudyInv, Rest, PubInv, Frontier, Passed, PhaseInv, AnswersInv, LedgerInv,
                    RefusedForCause

(* The dataset between datasets, when it is not closed, is not published.  *)
LEMMA CurrentUnpublished ==
  ASSUME StudyInv, run = "running", phase = "start", at \in DOMAIN DatasetOrder,
         Current \notin closed
  PROVE  Current \notin Pub
<1> SUFFICES ASSUME Current \in Pub PROVE FALSE
  OBVIOUS
<1>1. PICK i \in DOMAIN DatasetOrder : i < at /\ DatasetOrder[i] = Current
  BY DEF StudyInv, Passed
<1>2. i = at
  BY <1>1, OrderAssumption DEF Current
<1> QED BY <1>1, <1>2, OrderIs

LEMMA DatasetsAreOrdered == \A d \in Datasets : \E k \in DOMAIN DatasetOrder : DatasetOrder[k] = d
BY DEF Datasets

(* Units with rows are not ahead of a dataset that is not published.       *)
LEMMA FinalSoFar ==
  ASSUME StudyInv, run = "running", at \in DOMAIN DatasetOrder, Current \notin Pub,
         NEW u \in Units, Final(u)
  PROVE  DatasetOf[u] \in Pub \cup {Current}
<1>1. PICK k \in DOMAIN DatasetOrder : DatasetOrder[k] = DatasetOf[u]
  BY DatasetsAreOrdered, StudyAssumption
<1>2. CASE at < k
  BY <1>1, <1>2 DEF StudyInv, Frontier, Current
<1>3. CASE k < at
  BY <1>1, <1>3 DEF StudyInv, Passed
<1>4. CASE k = at
  BY <1>1, <1>4 DEF Current
<1> QED BY <1>1, <1>2, <1>3, <1>4, OrderIs

-------------------------------------------------------------------------------
(* The schedule                                                            *)

LEMMA SkipRest == ASSUME StudyInv, SkipDataset PROVE Rest'
<1>1. Pub' = Pub /\ \A u : Final(u)' <=> Final(u)
  BY DEF Pub, Final, SkipDataset, root
<1>2. at \in 1..Len(DatasetOrder) /\ at' = at + 1 /\ Current \in closed
  BY OrderIs DEF SkipDataset
<1>3. \A i \in DOMAIN DatasetOrder : i < at' <=> i < at \/ i = at
  BY <1>2, OrderIs
<1>4. Passed'
  BY <1>1, <1>2, <1>3 DEF StudyInv, Passed, SkipDataset, Current
<1>5. unit = {} /\ unit' = {}
  BY DEF StudyInv, PhaseInv, SkipDataset, job
<1>6. PhaseInv'
  BY <1>5 DEF PhaseInv, SkipDataset
<1>7. AnswersInv' /\ LedgerInv' /\ PubInv' /\ Frontier' /\ RefusedForCause'
  BY <1>1, <1>5 DEF StudyInv, AnswersInv, LedgerInv, PubInv, Frontier, RefusedForCause, SkipDataset, root, ledgers
<1> QED BY <1>4, <1>6, <1>7 DEF Rest

LEMMA StartRest == ASSUME StudyInv, StartDataset PROVE Rest'
<1>1. Pub' = Pub /\ Current' = Current /\ \A u : Final(u)' <=> Final(u)
  BY DEF Pub, Final, Current, StartDataset, root
<1>2. Current \notin Pub
  BY CurrentUnpublished DEF StartDataset
<1>3. \A u \in Units : Final(u) => DatasetOf[u] \in Pub \cup {Current}
  BY <1>2, FinalSoFar DEF StartDataset
<1>4. Passed'
  BY <1>1, <1>2, <1>3 DEF StudyInv, Passed, StartDataset
<1>5. unit = {} /\ unit' = {} /\ answers' \subseteq answers
  BY DEF StudyInv, PhaseInv, StartDataset, job
<1>6. PhaseInv'
  BY <1>5 DEF PhaseInv, StartDataset
<1>7. AnswersInv' /\ LedgerInv' /\ PubInv' /\ Frontier' /\ RefusedForCause'
  BY <1>1, <1>5 DEF StudyInv, AnswersInv, LedgerInv, PubInv, Frontier, RefusedForCause, StartDataset, root, ledgers
<1> QED BY <1>4, <1>6, <1>7 DEF Rest

LEMMA NextPhaseRest == ASSUME StudyInv, NextPhase PROVE Rest'
<1>1. Pub' = Pub /\ Current' = Current /\ \A u : Final(u)' <=> Final(u)
  BY DEF Pub, Final, Current, NextPhase, root
<1>2. Passed'
  BY <1>1 DEF StudyInv, Passed, NextPhase
<1>3. unit = {} /\ unit' = {} /\ answers' = answers
  BY DEF NextPhase, job
<1>4. \A u \in UnitsOf(Current) : Phase(u) = phase => Final(u)
  BY DEF NextPhase, ToRun, UnitsOf, Final
<1>5. CASE phase = "core"
  <2>1. \A u \in UnitsOf(Current) : u \notin Bridge => Final(u)
    BY <1>4, <1>5 DEF Phase
  <2> QED BY <1>1, <1>2, <1>3, <1>5, <2>1
          DEF Rest, StudyInv, PhaseInv, AnswersInv, LedgerInv, PubInv, Frontier, RefusedForCause,
              NextPhase, root, ledgers
<1>6. CASE phase = "bridge"
  <2>1. \A u \in UnitsOf(Current) : Final(u)
    BY <1>4, <1>6 DEF Phase, StudyInv, PhaseInv, NextPhase
  <2> QED BY <1>1, <1>2, <1>3, <1>6, <2>1
          DEF Rest, StudyInv, PhaseInv, AnswersInv, LedgerInv, PubInv, Frontier, RefusedForCause,
              NextPhase, root, ledgers
<1> QED BY <1>5, <1>6 DEF NextPhase

LEMMA EndRest == ASSUME StudyInv, EndDataset PROVE Rest'
<1>1. Pub' = Pub /\ \A u : Final(u)' <=> Final(u)
  BY DEF Pub, Final, EndDataset, root
<1>2. at \in 1..Len(DatasetOrder) /\ at' = at + 1 /\ Current \in Pub /\ Current = DatasetOrder[at]
  BY OrderIs DEF EndDataset, StudyInv, Passed, InPhase, Current
<1>3. \A i \in DOMAIN DatasetOrder : i < at' <=> i < at \/ i = at
  BY <1>2, OrderIs
<1>4. Passed'
  <2>1. \A i \in DOMAIN DatasetOrder : i < at' => DatasetOrder[i] \in Pub'
    BY <1>1, <1>2, <1>3 DEF StudyInv, Passed, EndDataset
  <2>2. at \in DOMAIN DatasetOrder /\ at < at'
    BY <1>2, OrderIs
  <2>3. \A d \in Pub' : d \in closed' \/ \E i \in DOMAIN DatasetOrder : i < at' /\ DatasetOrder[i] = d
    <3> SUFFICES ASSUME NEW d \in Pub
                 PROVE  d \in closed \/ \E i \in DOMAIN DatasetOrder : i < at' /\ DatasetOrder[i] = d
      BY <1>1 DEF EndDataset
    <3>1. CASE d = Current
      BY <3>1, <1>2, <2>2
    <3>2. CASE d # Current
      BY <3>2, <1>3 DEF StudyInv, Passed, EndDataset
    <3> QED BY <3>1, <3>2
  <2>4. closed' = closed /\ phase' = "start" /\ closed \subseteq Pub
    BY DEF EndDataset, StudyInv, Passed
  <2> QED BY <1>1, <2>1, <2>3, <2>4 DEF Passed
<1>5. unit = {} /\ unit' = {}
  BY DEF StudyInv, PhaseInv, EndDataset, job
<1>6. PhaseInv'
  BY <1>5 DEF PhaseInv, EndDataset
<1>7. AnswersInv' /\ LedgerInv' /\ PubInv' /\ Frontier' /\ RefusedForCause'
  BY <1>1, <1>5 DEF StudyInv, AnswersInv, LedgerInv, PubInv, Frontier, RefusedForCause, EndDataset, root
<1> QED BY <1>4, <1>6, <1>7 DEF Rest

-------------------------------------------------------------------------------
(* Units and their assignments                                             *)

(* A unit of the dataset at hand gets its row.                             *)
LEMMA RowWritten ==
  ASSUME StudyInv, run = "running", NEW u \in Units, NEW x, x # "PENDING",
         outcome' = [outcome EXCEPT ![u] = x],
         DatasetOf[u] = Current, phase \in {"core", "bridge"},
         unit' = {}, unit \subseteq {u}, pending' \subseteq pending \cup {u},
         UNCHANGED <<published, ledgerRows, run, closed, at, phase, answers, unwritten, disclosed>>
  PROVE  Rest'
<1>1. Pub' = Pub /\ Current' = Current
  BY DEF Pub, Current
<1>2. \A w \in Units : Final(w)' <=> Final(w) \/ w = u
  BY DEF Final, StudyInv, TypeOK
<1>3. Current \notin Pub /\ at \in DOMAIN DatasetOrder
  BY DEF StudyInv, Passed, InPhase
<1>4. PubInv'
  BY <1>1, <1>2, <1>3 DEF StudyInv, PubInv
<1>5. Frontier'
  <2> SUFFICES ASSUME NEW w \in Units, NEW i \in DOMAIN DatasetOrder, NEW k \in DOMAIN DatasetOrder,
                      Final(w)', i < k, DatasetOrder[k] = DatasetOf[w]
               PROVE  DatasetOrder[i] \in Pub
    BY <1>1 DEF Frontier
  <2>1. CASE Final(w)
    BY <2>1 DEF StudyInv, Frontier
  <2>2. CASE w = u
    <3>1. k = at
      BY <2>2, <1>3, OrderAssumption DEF Current
    <3> QED BY <3>1 DEF StudyInv, Passed
  <2> QED BY <2>1, <2>2, <1>2
<1>6. Passed'
  <2>1. \A w \in Units : Final(w)' => DatasetOf[w] \in Pub \cup {Current}
    BY <1>2 DEF StudyInv, Passed
  <2> QED BY <1>1, <2>1 DEF StudyInv, Passed
<1>7. PhaseInv'
  BY <1>1, <1>2 DEF StudyInv, PhaseInv, UnitsOf
<1>8. answers \subseteq Units /\ pending \subseteq Units
  BY DEF StudyInv, TypeOK
<1>9. AnswersInv'
  BY <1>1, <1>2, <1>8 DEF StudyInv, AnswersInv
<1>10. LedgerInv'
  BY <1>1, <1>2, <1>8 DEF StudyInv, LedgerInv
<1>11. RefusedForCause'
  BY DEF RefusedForCause
<1> QED BY <1>4, <1>5, <1>6, <1>7, <1>9, <1>10, <1>11 DEF Rest

LEMMA DueIs ==
  ASSUME NEW u \in Units, CanStart(u)
  PROVE  run = "running" /\ phase \in {"core", "bridge"} /\ unit = {} /\ DatasetOf[u] = Current
BY DEF CanStart, Due, ToRun

LEMMA HoldRest == ASSUME StudyInv, NEW u \in Units, Hold(u) PROVE Rest'
BY DueIs, RowWritten DEF Hold, process, job, ledgers

LEMMA UnissuedRest == ASSUME StudyInv, NEW u \in Units, Unissued(u) PROVE Rest'
BY DueIs, RowWritten DEF Unissued, job

LEMMA FinishUnitRest == ASSUME StudyInv, NEW u \in Units, FinishUnit(u) PROVE Rest'
<1>1. DatasetOf[u] = Current /\ phase \in {"core", "bridge"}
  BY DEF FinishUnit, StudyInv, PhaseInv
<1>2. pending' \subseteq pending \cup {u}
  BY DEF FinishUnit
<1> QED BY <1>1, <1>2, RowWritten DEF FinishUnit

LEMMA RaiseRest == ASSUME StudyInv, Raise PROVE Rest'
BY Halted DEF Raise, root

LEMMA IssueRest == ASSUME StudyInv, NEW u \in Units, Issue(u) PROVE Rest'
<1>1. CASE ~(Plan[u] = {} \/ Covers(epoch, Plan[u]))
  BY <1>1, RaiseRest DEF Issue
<1>2. CASE Plan[u] = {} \/ Covers(epoch, Plan[u])
  <2>0. /\ UNCHANGED <<outcome, published, ledgerRows, run, closed, at, phase, pending, unwritten,
                       disclosed>>
        /\ unit' = {u} /\ answers' \subseteq answers \cup {u}
    BY <1>2 DEF Issue
  <2>1. run = "running" /\ phase \in {"core", "bridge"} /\ unit = {} /\ DatasetOf[u] = Current
    BY DueIs DEF Issue
  <2>2. Pub' = Pub /\ Current' = Current /\ \A w : Final(w)' <=> Final(w)
    BY <2>0 DEF Pub, Current, Final
  <2>3. PhaseInv'
    BY <2>0, <2>1, <2>2 DEF StudyInv, PhaseInv
  <2>4. AnswersInv'
    BY <2>0, <2>1, <2>2 DEF StudyInv, AnswersInv
  <2>5. Passed' /\ PubInv' /\ Frontier' /\ LedgerInv' /\ RefusedForCause'
    BY <2>0, <2>1, <2>2 DEF StudyInv, Passed, PubInv, Frontier, LedgerInv, RefusedForCause
  <2> QED BY <2>3, <2>4, <2>5 DEF Rest
<1> QED BY <1>1, <1>2

LEMMA BeginRest == ASSUME StudyInv, NEW a \in Assignments, Begin(a) PROVE Rest'
<1>1. CASE ~MayBegin(epoch, a)
  BY <1>1, RaiseRest DEF Begin
<1>2. CASE MayBegin(epoch, a)
  BY <1>2, Quiet DEF Begin, root, ledgers
<1> QED BY <1>1, <1>2

LEMMA AdmitRest ==
  ASSUME StudyInv, NEW a \in Assignments, NEW status, Admit(a, status) PROVE Rest'
<1>1. CASE ~MayFinish(epoch, a, status)
  BY <1>1, RaiseRest DEF Admit
<1>2. CASE MayFinish(epoch, a, status)
  BY <1>2, Quiet DEF Admit, ledgers
<1> QED BY <1>1, <1>2

-------------------------------------------------------------------------------
(* run_calibration                                                         *)

LEMMA DiscloseRest == ASSUME StudyInv, Disclose PROVE Rest'
<1>1. CASE ~MayClose(epoch)
  BY <1>1, RaiseRest DEF Disclose
<1>2. CASE MayClose(epoch)
  <2>0. /\ run = "running" /\ phase = "close" /\ phase' = "observe"
        /\ published' = Append(published, Publication) /\ disclosed' = disclosed \cup answers
        /\ UNCHANGED <<outcome, ledgerRows, run, closed, at, answers, unit, pending, unwritten>>
    BY <1>2 DEF Disclose, job, ledgers
  <2>1. at \in DOMAIN DatasetOrder /\ Current \in Datasets /\ Current \notin Pub
    BY <2>0, CurrentIs DEF StudyInv, InPhase, Passed
  <2>2. published \in Seq(Publications) /\ Publication \in Publications
        /\ Publication.dataset = Current
    BY <2>1, PublicationIs DEF StudyInv, TypeOK, Publication
  <2>3. Pub' = Pub \cup {Current}
    <3>1. DOMAIN published' = DOMAIN published \cup {Len(published) + 1}
      BY <2>0, <2>2
    <3>2. \A i \in DOMAIN published : published'[i] = published[i]
      BY <2>0, <2>2
    <3>3. published'[Len(published) + 1] = Publication
      BY <2>0, <2>2
    <3> QED BY <3>1, <3>2, <3>3, <2>2 DEF Pub
  <2>4. Current' = Current /\ \A w : Final(w)' <=> Final(w)
    BY <2>0 DEF Current, Final
  <2>5. \A u \in UnitsOf(Current) : Final(u)
    BY <2>0 DEF StudyInv, PhaseInv
  <2>6. PubInv'
    <3>1. IsFiniteSet(Pub') /\ Cardinality(Pub') = Cardinality(Pub) + 1
      BY <2>1, <2>3, FS_AddElement DEF StudyInv, PubInv
    <3>2. Len(published') = Len(published) + 1
      BY <2>0, <2>2
    <3>3. \A u \in Units : DatasetOf[u] \in Pub' => Final(u)'
      BY <2>3, <2>4, <2>5 DEF StudyInv, PubInv, UnitsOf
    <3> QED BY <2>1, <2>3, <3>1, <3>2, <3>3 DEF StudyInv, PubInv
  <2>7. Frontier'
    BY <2>3, <2>4 DEF StudyInv, Frontier
  <2>8. unit = {}
    BY <2>0 DEF StudyInv, PhaseInv
  <2>9. \A u \in Units : Final(u) => DatasetOf[u] \in Pub'
    BY <2>0, <2>3 DEF StudyInv, Passed
  <2>10. Passed'
    <3>1. Current \notin closed
      BY <2>0 DEF StudyInv, Passed
    <3>2. \A d \in Pub' : \/ d \in closed
                          \/ \E i \in DOMAIN DatasetOrder : i < at /\ DatasetOrder[i] = d
                          \/ d = Current
      BY <2>0, <2>3 DEF StudyInv, Passed
    <3>3. closed \subseteq Pub' /\ \A i \in DOMAIN DatasetOrder : i < at => DatasetOrder[i] \in Pub'
      BY <2>0, <2>3 DEF StudyInv, Passed
    <3> QED BY <2>0, <2>3, <2>4, <2>9, <3>1, <3>2, <3>3 DEF Passed
  <2>11. PhaseInv'
    BY <2>0, <2>8 DEF PhaseInv
  <2>12. AnswersInv'
    <3>1. \A u \in answers : DatasetOf[u] \in Pub'
      BY <2>0, <2>3, <2>8, <2>9 DEF StudyInv, AnswersInv, TypeOK
    <3> QED BY <2>0, <2>3, <3>1 DEF StudyInv, AnswersInv
  <2>13. LedgerInv' /\ RefusedForCause'
    BY <2>0, <2>3, <2>4 DEF StudyInv, LedgerInv, RefusedForCause
  <2> QED BY <2>6, <2>7, <2>10, <2>11, <2>12, <2>13 DEF Rest
<1> QED BY <1>1, <1>2

LEMMA ObserveRest == ASSUME StudyInv, NEW a \in Assignments, Observe(a) PROVE Rest'
<1>1. CASE a \notin reserved
  BY <1>1, RaiseRest DEF Observe
<1>2. CASE a \in reserved
  <2>0. /\ run = "running" /\ phase = "observe" /\ a \in ToObserve /\ unwritten' = Append(unwritten, a)
        /\ UNCHANGED <<outcome, published, ledgerRows, run, closed, at, phase, answers, unit, pending,
                       disclosed>>
    BY <1>2 DEF Observe, root, job
  <2>1. Pub' = Pub /\ Current' = Current /\ \A w : Final(w)' <=> Final(w)
    BY <2>0 DEF Pub, Current, Final
  <2>2. PICK u \in pending : a \in Plan[u]
    BY <2>0 DEF ToObserve
  <2>3. u \in Units /\ DatasetOf[u] \in Pub
    BY <2>0 DEF StudyInv, TypeOK, LedgerInv, Passed
  <2>4. unwritten \in Seq(Assignments)
    BY DEF StudyInv, TypeOK
  <2>a. unwritten' = Append(unwritten, a)
    BY <2>0
  <2>5. \A i \in DOMAIN unwritten' :
        \/ unwritten'[i] = a
        \/ i \in DOMAIN unwritten /\ unwritten'[i] = unwritten[i]
    BY <2>a, <2>4
  <2>6. \A i \in DOMAIN unwritten' : \E w \in Units : unwritten'[i] \in Plan[w] /\ DatasetOf[w] \in Pub
    BY <2>0, <2>2, <2>3, <2>5 DEF StudyInv, LedgerInv
  <2>7. LedgerInv'
    BY <2>0, <2>1, <2>6 DEF StudyInv, LedgerInv
  <2> QED BY <2>0, <2>1, <2>7
          DEF StudyInv, Rest, PubInv, Frontier, Passed, PhaseInv, AnswersInv, RefusedForCause
<1> QED BY <1>1, <1>2

LEMMA WriteRowRest == ASSUME StudyInv, WriteRow PROVE Rest'
<1>0. /\ run = "running" /\ unwritten # <<>>
      /\ ledgerRows' = Append(ledgerRows, Head(unwritten)) /\ unwritten' = Tail(unwritten)
      /\ UNCHANGED <<outcome, published, run, closed, at, phase, answers, unit, pending, disclosed>>
  BY DEF WriteRow, job
<1>1. Pub' = Pub /\ Current' = Current /\ \A w : Final(w)' <=> Final(w)
  BY <1>0 DEF Pub, Current, Final
<1>2. unwritten \in Seq(Assignments) /\ ledgerRows \in Seq(Assignments)
  BY DEF StudyInv, TypeOK
<1>3. 1 \in DOMAIN unwritten /\ Head(unwritten) = unwritten[1]
  BY <1>0, <1>2
<1>4. \A i \in DOMAIN unwritten' : i + 1 \in DOMAIN unwritten /\ unwritten'[i] = unwritten[i + 1]
  BY <1>0, <1>2
<1>5. \A i \in DOMAIN ledgerRows' : \/ ledgerRows'[i] = unwritten[1]
                                    \/ i \in DOMAIN ledgerRows /\ ledgerRows'[i] = ledgerRows[i]
  BY <1>0, <1>2, <1>3
<1>6. \A i \in DOMAIN unwritten : \E u \in Units : unwritten[i] \in Plan[u] /\ DatasetOf[u] \in Pub
  BY <1>0 DEF StudyInv, LedgerInv
<1>7. \A i \in DOMAIN ledgerRows' : \E u \in Units : ledgerRows'[i] \in Plan[u] /\ DatasetOf[u] \in Pub
  BY <1>3, <1>5, <1>6 DEF StudyInv, LedgerInv
<1>8. \A i \in DOMAIN unwritten' : \E u \in Units : unwritten'[i] \in Plan[u] /\ DatasetOf[u] \in Pub
  BY <1>4, <1>6
<1>9. LedgerInv'
  BY <1>0, <1>1, <1>7, <1>8 DEF StudyInv, LedgerInv
<1> QED BY <1>0, <1>1, <1>9
        DEF StudyInv, Rest, PubInv, Frontier, Passed, PhaseInv, AnswersInv, RefusedForCause

-------------------------------------------------------------------------------
(* Stops and continuations                                                 *)

LEMMA StopRest == ASSUME StudyInv, Stop PROVE Rest'
BY Halted DEF Stop, root

(* Calibration is complete only for a dataset that is published: its rows  *)
(* are of the calibration unit, and no other unit has those assignments.   *)
LEMMA CalibratedIsPublished ==
  ASSUME StudyInv, NEW d \in Datasets, FullyCalibrated(d)
  PROVE  d \in Pub
<1>1. CalibrationUnit[d] \in Units /\ DatasetOf[CalibrationUnit[d]] = d /\ Required(d) # {}
  BY StudyAssumption DEF Required
<1>2. PICK i \in DOMAIN ledgerRows : ledgerRows[i] \in Plan[CalibrationUnit[d]]
  BY <1>1 DEF FullyCalibrated, RowsOf, Required
<1>3. PICK u \in Units : ledgerRows[i] \in Plan[u] /\ DatasetOf[u] \in Pub
  BY DEF StudyInv, LedgerInv
<1>4. u = CalibrationUnit[d]
  BY <1>1, <1>2, <1>3, StudyAssumption
<1> QED BY <1>1, <1>3, <1>4

(* The manifest's closed datasets are exactly the published ones.          *)
LEMMA ClosedIsPublished ==
  ASSUME StudyInv, NEW done, NEW shut \in SUBSET Datasets, Acceptable(done, shut)
  PROVE  shut = Pub /\ RetainedPublications(shut) = published
<1>1. CASE shut = {}
  <2>1. published = <<>>
    BY <1>1 DEF Acceptable
  <2> QED BY <1>1, <2>1 DEF Pub, RetainedPublications
<1>2. CASE shut # {}
  <2>1. shut \subseteq Pub
    BY <1>2, CalibratedIsPublished DEF Acceptable
  <2>2. Cardinality(shut) = Cardinality(Pub) /\ IsFiniteSet(Pub)
    BY <1>2 DEF Acceptable, StudyInv, PubInv
  <2> QED BY <1>2, <2>1, <2>2, FS_Subset DEF RetainedPublications
<1> QED BY <1>1, <1>2

LEMMA ContinueRest ==
  ASSUME StudyInv, NEW done \in SUBSET Finalised, NEW shut \in SUBSET Datasets, Continue(done, shut)
  PROVE  Rest'
<1>0. /\ Acceptable(done, shut) /\ run' = "running" /\ closed' = shut
      /\ outcome' = [u \in Units |-> IF u \in done THEN outcome[u] ELSE "PENDING"]
      /\ published' = RetainedPublications(shut) /\ at' = 1 /\ phase' = "start" /\ unit' = {}
      /\ answers' \subseteq done /\ pending' \subseteq done /\ unwritten' = <<>>
      /\ UNCHANGED <<ledgerRows, disclosed>>
  BY DEF Continue, Started, RestoredJobs
<1>1. shut = Pub /\ published' = published
  BY <1>0, ClosedIsPublished
<1>2. Pub' = Pub
  BY <1>1 DEF Pub
<1>3. done \subseteq Units /\ \A u \in Units : Final(u)' <=> u \in done
  BY <1>0 DEF Finalised, Final
<1>4. \A u \in Units : Final(u)' => Final(u)
  BY <1>3 DEF Finalised, Final
<1>5. \A u \in Units : DatasetOf[u] \in Pub => Final(u)'
  BY <1>0, <1>1, <1>3 DEF Acceptable, UnitsOf
<1>6. PubInv'
  BY <1>1, <1>2, <1>5 DEF StudyInv, PubInv
<1>7. Frontier'
  BY <1>2, <1>4 DEF StudyInv, Frontier
<1>8. Passed'
  <2>1. \A i \in DOMAIN DatasetOrder : ~(i < at')
    BY <1>0, OrderIs
  <2> QED BY <1>0, <1>1, <1>2, <2>1 DEF Passed
<1>9. PhaseInv'
  BY <1>0 DEF PhaseInv
<1>10. AnswersInv'
  BY <1>0, <1>2, <1>3 DEF StudyInv, AnswersInv
<1>11. LedgerInv'
  <2>1. DOMAIN unwritten' = {}
    BY <1>0
  <2> QED BY <1>0, <1>2, <1>3, <2>1 DEF StudyInv, LedgerInv
<1>12. RefusedForCause'
  BY <1>0 DEF RefusedForCause
<1> QED BY <1>6, <1>7, <1>8, <1>9, <1>10, <1>11, <1>12 DEF Rest

LEMMA RefuseRest == ASSUME StudyInv, Refuse PROVE Rest'
<1>0. /\ run' = "refused" /\ \A shut \in SUBSET Datasets : ~Acceptable(Finalised, shut)
      /\ UNCHANGED <<outcome, published, ledgerRows, disclosed>>
  BY DEF Refuse, root
<1>1. Pub' = Pub /\ \A u : Final(u)' <=> Final(u)
  BY <1>0 DEF Pub, Final
<1>2. \E i \in DOMAIN published : ~FullyCalibrated(published[i].dataset)
  <2> SUFFICES ASSUME \A i \in DOMAIN published : FullyCalibrated(published[i].dataset) PROVE FALSE
    OBVIOUS
  <2>1. \A d \in Pub : UnitsOf(d) \subseteq Finalised /\ FullyCalibrated(d)
    BY DEF Pub, StudyInv, PubInv, UnitsOf, Final, Finalised
  <2>2. Pub \in SUBSET Datasets /\ Len(published) = Cardinality(Pub)
    BY DEF StudyInv, PubInv
  <2>3. published # <<>> => Pub # {}
    <3>1. published \in Seq(Publications)
      BY DEF StudyInv, TypeOK
    <3>2. published # <<>> => 1 \in DOMAIN published
      BY <3>1
    <3> QED BY <3>2 DEF Pub
  <2> QED BY <1>0, <2>1, <2>2, <2>3 DEF Acceptable
<1>3. RefusedForCause'
  BY <1>0, <1>2 DEF RefusedForCause, FullyCalibrated, RowsOf
<1> QED BY <1>0, <1>1, <1>3 DEF StudyInv, Rest, PubInv, Frontier, Passed, PhaseInv, AnswersInv, LedgerInv

-------------------------------------------------------------------------------
(* The study's invariant                                                   *)

LEMMA FinishRest == ASSUME StudyInv, Finish PROVE Rest'
BY Halted DEF Finish, root

LEMMA StudyStep == StudyInv /\ [Next]_vars => StudyInv'
<1> SUFFICES ASSUME StudyInv, [Next]_vars PROVE StudyInv'
  OBVIOUS
<1>1. (TypeOK /\ InPhase)'
  BY NextTypeOK, NextInPhase DEF StudyInv
<1>2. Rest'
  <2>1. ASSUME NEW u \in Units, UnitStep(u) PROVE Rest'
    BY <2>1, HoldRest, UnissuedRest, IssueRest, FinishUnitRest DEF UnitStep
  <2>2. ASSUME NEW a \in Assignments, AssignmentStep(a) PROVE Rest'
    BY <2>2, BeginRest, AdmitRest, ObserveRest DEF AssignmentStep
  <2>3. CASE Step
    BY <2>1, <2>2, <2>3, SkipRest, StartRest, NextPhaseRest, FinishRest, DiscloseRest, WriteRowRest,
       EndRest DEF Step
  <2>4. CASE Continuation
    BY <2>4, ContinueRest, RefuseRest DEF Continuation
  <2>5. CASE UNCHANGED vars
    BY <2>5, Quiet DEF vars, root, process, job, ledgers
  <2> QED BY <2>3, <2>4, <2>5, StopRest DEF Next
<1> QED BY <1>1, <1>2 DEF StudyInv, Rest

(* The invariant the two theorems below rest on.                           *)
THEOREM StudyInvariance == Spec => []StudyInv
<1>1. Init => StudyInv
  BY InitTypeOK, StudyInit DEF Init, InPhase, StudyInv, Rest
<1> QED BY <1>1, StudyStep, PTL DEF Spec

Running == run = "running"

(* What a step that ends the process leaves of the assignment in progress. *)
LEMMA Ending ==
  ASSUME [Next]_vars, ~Running'
  PROVE  UNCHANGED <<serving, unit, disclosed>> \/ serving' = {}
<1>1. Raise => UNCHANGED <<serving, unit, disclosed>>
  BY DEF Raise, process, job
<1>2. ASSUME NEW u \in Units, UnitStep(u) PROVE UNCHANGED <<serving, unit, disclosed>>
  BY <1>1, <1>2 DEF Running, UnitStep, Hold, Unissued, Issue, FinishUnit, CanStart, process, job
<1>3. ASSUME NEW a \in Assignments, AssignmentStep(a) PROVE UNCHANGED <<serving, unit, disclosed>>
  BY <1>1, <1>3 DEF Running, AssignmentStep, Begin, Admit, Observe, job
<1>4. CASE Step
  BY <1>1, <1>2, <1>3, <1>4
     DEF Running, Step, SkipDataset, StartDataset, NextPhase, Finish, Disclose, WriteRow, EndDataset, process, job
<1>5. CASE Stop
  BY <1>5 DEF Stop, Started
<1>6. CASE Continuation
  BY <1>6 DEF Running, Continuation, Continue, Refuse, process, job
<1>7. CASE UNCHANGED vars
  BY <1>7 DEF vars, process, job
<1> QED BY <1>4, <1>5, <1>6, <1>7 DEF Next

(* No assignment is served whose dataset's probe answers are out, however  *)
(* many runs were stopped and continued before it: a manifest that closes  *)
(* fewer datasets than were published is refused, by its publication count *)
(* and by the calibration rows.                                            *)
THEOREM NoServiceAfterDisclosureAlways == Spec => []NoServiceAfterDisclosure
<1>1. Init => NoServiceAfterDisclosure
  BY DEF Init, NoServiceAfterDisclosure
<1>2. StudyInv /\ Running => NoServiceAfterDisclosure
  <2> SUFFICES ASSUME StudyInv, run = "running",
                      NEW a \in serving, NEW u \in unit, NEW v \in disclosed
               PROVE  DatasetOf[v] # DatasetOf[u]
    BY DEF Running, NoServiceAfterDisclosure
  <2>1. DatasetOf[u] = Current /\ phase \in {"core", "bridge"}
    BY DEF StudyInv, PhaseInv
  <2>2. Current \notin Pub
    BY <2>1 DEF StudyInv, Passed
  <2>3. DatasetOf[v] \in Pub
    BY DEF StudyInv, AnswersInv
  <2> QED BY <2>1, <2>2, <2>3
<1>3. StudyInv' /\ Running' => NoServiceAfterDisclosure'
  BY <1>2, PTL
<1>4. NoServiceAfterDisclosure /\ [Next]_vars /\ ~Running' => NoServiceAfterDisclosure'
  <2> SUFFICES ASSUME NoServiceAfterDisclosure, [Next]_vars, ~Running'
               PROVE  NoServiceAfterDisclosure'
    OBVIOUS
  <2>1. CASE UNCHANGED <<serving, unit, disclosed>>
    BY <2>1 DEF NoServiceAfterDisclosure
  <2>2. CASE serving' = {}
    BY <2>2 DEF NoServiceAfterDisclosure
  <2> QED BY <2>1, <2>2, Ending
<1> QED BY <1>1, <1>3, <1>4, StudyInvariance, PTL DEF Spec

(* A stopped study that cannot be continued published a dataset whose      *)
(* calibration rows are not complete.                                      *)
THEOREM RefusedForCauseAlways == Spec => []RefusedForCause
<1>1. StudyInv => RefusedForCause
  BY DEF StudyInv
<1> QED BY <1>1, StudyInvariance, PTL

-------------------------------------------------------------------------------
(* The epoch, the log and the calibration rows                             *)

(* A settlement is of a measured unit, that was delivered, and its audit   *)
(* was selected.                                                           *)
SettledInv ==
  /\ \A a \in Assignments : settled[a] # None =>
       a \in audited /\ \E u \in Units : a \in Plan[u] /\ outcome[u] = "MEASURED"
  /\ \A u \in Units : outcome[u] = "MEASURED" => u \in delivered

(* The unit in progress has no row; what is served is its own, and it has  *)
(* its reservations and its answers.                                       *)
ServingInv ==
  run = "running" =>
    /\ \A u \in unit : /\ outcome[u] = "PENDING" /\ u \in delivered
                       /\ Plan[u] # {} => u \in answers
                       /\ u = CalibrationUnit[DatasetOf[u]] => Plan[u] \subseteq reserved
    /\ \A a \in Assignments : service[a] # None =>
         a \in audited /\ \E u \in unit : a \in Plan[u]
    /\ \A a \in serving : service[a] = None

(* The open epoch mirrors the dataset's settlements.                       *)
StateOf(a) ==
  IF a \in serving THEN "RUNNING"
  ELSE IF settled[a] # None THEN settled[a]
  ELSE IF service[a] # None THEN service[a] ELSE "PLANNED"
EpochInv ==
  run = "running" /\ phase \in {"core", "bridge", "close"} =>
    /\ ~epoch.closed /\ ~epoch.published
    /\ DOMAIN epoch.states = Planned(Current)
    /\ \A a \in Planned(Current) : epoch.states[a] = StateOf(a)

(* The process holds the answers of every measured unit whose dataset is   *)
(* not published.                                                          *)
AnswersHeld ==
  run = "running" =>
    \A u \in Units :
      outcome[u] = "MEASURED" /\ Plan[u] # {} /\ DatasetOf[u] \notin Pub => u \in answers

(* What is to be observed is reserved; what was observed of it is in the   *)
(* file or about to be written, once.                                      *)
ObservingInv ==
  run = "running" =>
    /\ \A u \in pending : Plan[u] \subseteq reserved
    /\ \A i \in DOMAIN ledgerRows : \A u \in pending :
         ledgerRows[i] \in Plan[u] => ledgerRows[i] \in observed
    /\ \A i \in DOMAIN unwritten :
         /\ unwritten[i] \in observed /\ settled[unwritten[i]] # None
         /\ \A k \in DOMAIN ledgerRows : ledgerRows[k] # unwritten[i]
         /\ \A k \in DOMAIN unwritten \ {i} : unwritten[k] # unwritten[i]
RowsOnce ==
  \A i \in DOMAIN ledgerRows :
    /\ settled[ledgerRows[i]] # None
    /\ \A k \in DOMAIN ledgerRows \ {i} : ledgerRows[k] # ledgerRows[i]

(* Datasets are published in their order.                                  *)
PublishedInOrder ==
  /\ Len(published) <= Len(DatasetOrder)
  /\ \A i \in DOMAIN published : published[i].dataset = DatasetOrder[i]

RootInv == SettledInv /\ RowsOnce /\ PublishedInOrder /\ PublishedAsSettled /\ AnswersComplete
ProcessInv == ServingInv /\ EpochInv /\ AnswersHeld /\ ObservingInv
LogInv == RootInv /\ DoneMeansDisclosed /\ NothingRaises /\ ProcessInv

LEMMA OnePlan ==
  ASSUME NEW u \in Units, NEW v \in Units, NEW a, a \in Plan[u], a \in Plan[v]
  PROVE  u = v
BY StudyAssumption

LEMMA PlannedIs ==
  ASSUME NEW u \in Units
  PROVE  /\ Plan[u] \subseteq Planned(DatasetOf[u]) /\ Plan[u] \subseteq Assignments
         /\ DatasetOf[u] \in Datasets
BY StudyAssumption DEF Planned, UnitsOf

(* An assignment is planned for the dataset of its unit only.              *)
LEMMA PlannedOnce ==
  ASSUME NEW u \in Units, NEW a \in Plan[u], NEW d, a \in Planned(d)
  PROVE  DatasetOf[u] = d
<1>1. PICK v \in Units : DatasetOf[v] = d /\ a \in Plan[v]
  BY DEF Planned, UnitsOf
<1> QED BY <1>1, OnePlan

LEMMA BegunStates ==
  ASSUME NEW e \in Epochs, NEW a, MayBegin(e, a)
  PROVE  /\ Begun(e, a).closed = e.closed /\ Begun(e, a).published = e.published
         /\ DOMAIN Begun(e, a).states = DOMAIN e.states
         /\ \A b \in DOMAIN e.states :
              Begun(e, a).states[b] = IF b = a THEN "RUNNING" ELSE e.states[b]
<1>1. Begun(e, a) = [e EXCEPT !.states = [e.states EXCEPT ![a] = "RUNNING"]]
  BY DEF Begun, Epochs
<1>2. e.states \in [DOMAIN e.states -> EpochStates]
  BY StateMapsAre DEF Epochs
<1> QED BY <1>1, <1>2 DEF Epochs

LEMMA FinishedStates ==
  ASSUME NEW e \in Epochs, NEW a, NEW status
  PROVE  /\ Finished(e, a, status).closed = e.closed
         /\ Finished(e, a, status).published = e.published
         /\ DOMAIN Finished(e, a, status).states = DOMAIN e.states
         /\ \A b \in DOMAIN e.states :
              Finished(e, a, status).states[b] = IF b = a THEN status ELSE e.states[b]
<1>1. Finished(e, a, status) = [e EXCEPT !.states = [e.states EXCEPT ![a] = status]]
  BY DEF Finished, Epochs
<1>2. e.states \in [DOMAIN e.states -> EpochStates]
  BY StateMapsAre DEF Epochs
<1> QED BY <1>1, <1>2 DEF Epochs

LEMMA ClosedStates ==
  ASSUME NEW e \in Epochs
  PROVE  /\ DOMAIN Closed(e).states = DOMAIN e.states
         /\ \A b \in DOMAIN e.states :
              Closed(e).states[b] = IF e.states[b] = "PLANNED" THEN "NOT_ACTIVATED" ELSE e.states[b]
BY DEF Closed, Epochs

LEMMA ReplayedStates ==
  ASSUME NEW ids, NEW results
  PROVE  /\ ~Replayed(ids, results).closed /\ ~Replayed(ids, results).published
         /\ DOMAIN Replayed(ids, results).states = ids
         /\ \A b \in ids : Replayed(ids, results).states[b]
                             = IF results[b] # None THEN results[b] ELSE "PLANNED"
BY DEF Replayed, NewEpoch

-------------------------------------------------------------------------------
(* Nothing raises: each check is met                                       *)

LEMMA EpochIs == ASSUME TypeOK PROVE epoch \in Epochs
BY DEF TypeOK, Epochs

LEMMA IssueCovers ==
  ASSUME StudyInv, LogInv, NEW u \in Units, CanStart(u)
  PROVE  Covers(epoch, Plan[u])
<1>1. DatasetOf[u] = Current /\ run = "running" /\ phase \in {"core", "bridge"}
  BY DueIs
<1>2. DOMAIN epoch.states = Planned(Current) /\ ~epoch.closed
  BY <1>1 DEF LogInv, ProcessInv, EpochInv
<1> QED BY <1>1, <1>2, PlannedIs DEF Covers

(* What the unit in progress has not served yet is planned in the epoch.   *)
LEMMA InProgress ==
  ASSUME StudyInv, LogInv, run = "running", NEW u \in unit, NEW a \in Plan[u]
  PROVE  /\ u \in Units /\ a \in Assignments /\ DatasetOf[u] = Current
         /\ phase \in {"core", "bridge"} /\ outcome[u] = "PENDING" /\ settled[a] = None
         /\ a \in DOMAIN epoch.states /\ a \in Planned(Current) /\ epoch.states[a] = StateOf(a)
<1>1. u \in Units
  BY DEF StudyInv, TypeOK
<1>2. a \in Assignments /\ a \in Planned(DatasetOf[u])
  BY <1>1, PlannedIs
<1>3. DatasetOf[u] = Current /\ phase \in {"core", "bridge"} /\ outcome[u] = "PENDING"
  BY DEF StudyInv, PhaseInv, LogInv, ProcessInv, ServingInv
<1>4. settled[a] = None
  BY <1>1, <1>2, <1>3, OnePlan DEF LogInv, RootInv, SettledInv
<1>5. a \in DOMAIN epoch.states /\ epoch.states[a] = StateOf(a)
  BY <1>2, <1>3 DEF LogInv, ProcessInv, EpochInv
<1> QED BY <1>1, <1>2, <1>3, <1>4, <1>5

LEMMA BeginMay ==
  ASSUME StudyInv, LogInv, NEW a, run = "running", serving = {}, service[a] = None,
         NEW u \in unit, a \in Plan[u]
  PROVE  MayBegin(epoch, a)
<1>1. a \in DOMAIN epoch.states /\ epoch.states[a] = StateOf(a) /\ settled[a] = None
      /\ phase \in {"core", "bridge"}
  BY InProgress
<1>2. StateOf(a) = "PLANNED"
  BY <1>1 DEF StateOf
<1> QED BY <1>1, <1>2 DEF LogInv, ProcessInv, EpochInv, MayBegin

LEMMA AdmitMay ==
  ASSUME StudyInv, LogInv, NEW a, NEW status \in Settlements, run = "running", serving = {a}
  PROVE  MayFinish(epoch, a, status)
<1>1. PICK u \in unit : a \in Plan[u]
  BY DEF StudyInv, TypeOK
<1>2. a \in DOMAIN epoch.states /\ epoch.states[a] = StateOf(a)
  BY <1>1, InProgress
<1>3. StateOf(a) = "RUNNING"
  BY DEF StateOf
<1> QED BY <1>2, <1>3 DEF MayFinish

(* At the end of a dataset no assignment is in progress.                   *)
LEMMA NothingServed ==
  ASSUME StudyInv, LogInv, run = "running", unit = {}
  PROVE  serving = {} /\ \A a \in Assignments : service[a] = None
BY DEF StudyInv, TypeOK, LogInv, ProcessInv, ServingInv

LEMMA SettledStates ==
  ASSUME TypeOK, NEW a \in Assignments
  PROVE  settled[a] \in Settlements \cup {None}
BY DEF TypeOK

LEMMA CloseMay ==
  ASSUME StudyInv, LogInv, run = "running", phase = "close"
  PROVE  /\ MayClose(epoch)
         /\ DOMAIN Closed(epoch).states = Planned(Current)
         /\ \A a \in Planned(Current) :
              Closed(epoch).states[a] = IF settled[a] = None THEN "NOT_ACTIVATED" ELSE settled[a]
<1>1. unit = {}
  BY DEF StudyInv, PhaseInv
<1>2. serving = {} /\ \A a \in Assignments : service[a] = None
  BY <1>1, NothingServed
<1>3. DOMAIN epoch.states = Planned(Current) /\ \A a \in Planned(Current) : epoch.states[a] = StateOf(a)
  BY DEF LogInv, ProcessInv, EpochInv
<1>4. ASSUME NEW a \in Planned(Current)
      PROVE  /\ epoch.states[a] = IF settled[a] = None THEN "PLANNED" ELSE settled[a]
             /\ settled[a] \in Settlements \cup {None}
  <2>1. a \in Assignments
    BY <1>4, PlansAre
  <2>2. settled[a] \in Settlements \cup {None}
    BY <2>1, SettledStates DEF StudyInv
  <2> QED BY <2>1, <2>2, <1>2, <1>3, <1>4 DEF StateOf
<1>5. MayClose(epoch)
  BY <1>3, <1>4 DEF MayClose, Settlements, None
<1>6. epoch \in Epochs
  BY EpochIs DEF StudyInv
<1>7. \A a \in Planned(Current) :
        Closed(epoch).states[a] = IF settled[a] = None THEN "NOT_ACTIVATED" ELSE settled[a]
  BY <1>3, <1>4, <1>6, ClosedStates DEF Settlements, None
<1>8. DOMAIN Closed(epoch).states = Planned(Current)
  BY <1>3, <1>6, ClosedStates
<1> QED BY <1>5, <1>7, <1>8

LEMMA ObservedReserved ==
  ASSUME StudyInv, LogInv, run = "running", NEW a \in ToObserve
  PROVE  a \in reserved
BY DEF ToObserve, LogInv, ProcessInv, ObservingInv

-------------------------------------------------------------------------------
(* What each step does to it                                               *)

LEMMA RootQuiet == ASSUME RootInv, UNCHANGED root PROVE RootInv'
BY DEF root, RootInv, SettledInv, RowsOnce, PublishedInOrder, PublishedAsSettled, AnswersComplete

LEMMA InitLog == Init => LogInv
<1> SUFFICES ASSUME Init PROVE LogInv
  OBVIOUS
<1>1. RootInv
  BY OrderIs DEF Init, RootInv, SettledInv, RowsOnce, PublishedInOrder, PublishedAsSettled,
                 AnswersComplete, NoService
<1>2. ProcessInv
  BY DEF Init, ProcessInv, ServingInv, EpochInv, AnswersHeld, ObservingInv, NoService
<1> QED BY <1>1, <1>2 DEF Init, LogInv, DoneMeansDisclosed, NothingRaises

(* A process that is over, or between runs.                                *)
LEMMA HaltedLog ==
  ASSUME LogInv, run' \in {"stopped", "refused"}, UNCHANGED root
  PROVE  LogInv'
<1>1. RootInv'
  BY RootQuiet DEF LogInv
<1> QED BY <1>1 DEF LogInv, DoneMeansDisclosed, NothingRaises, ProcessInv, ServingInv, EpochInv,
                    AnswersHeld, ObservingInv

(* A running process goes on with the root as it is.                       *)
LEMMA RunningLog ==
  ASSUME LogInv, run' = "running", UNCHANGED root, ProcessInv'
  PROVE  LogInv'
<1>1. RootInv'
  BY RootQuiet DEF LogInv
<1> QED BY <1>1 DEF LogInv, DoneMeansDisclosed, NothingRaises

LEMMA SkipLog == ASSUME StudyInv, LogInv, SkipDataset PROVE LogInv'
<1>1. Pub' = Pub
  BY DEF Pub, SkipDataset, root
<1>2. ProcessInv'
  BY <1>1 DEF LogInv, ProcessInv, ServingInv, EpochInv, AnswersHeld, ObservingInv, SkipDataset,
              root, job, ledgers
<1> QED BY <1>2, RunningLog DEF SkipDataset

LEMMA NextPhaseLog == ASSUME StudyInv, LogInv, NextPhase PROVE LogInv'
<1>1. Pub' = Pub /\ Current' = Current
  BY DEF Pub, Current, NextPhase, root
<1>2. \A a : StateOf(a)' = StateOf(a)
  BY DEF StateOf, NextPhase, root, job
<1>3. EpochInv'
  BY <1>1, <1>2 DEF LogInv, ProcessInv, EpochInv, NextPhase, Planned
<1>4. ProcessInv'
  BY <1>1, <1>3 DEF LogInv, ProcessInv, ServingInv, AnswersHeld, ObservingInv, NextPhase,
                    root, job, ledgers
<1> QED BY <1>4, RunningLog DEF NextPhase

LEMMA StartLog == ASSUME StudyInv, LogInv, StartDataset PROVE LogInv'
<1>0. run = "running" /\ run' = "running" /\ phase = "start" /\ at \in DOMAIN DatasetOrder
  BY DEF StartDataset
<1>1. Pub' = Pub /\ Current' = Current
  BY DEF Pub, Current, StartDataset, root
<1>2. unit = {}
  BY <1>0 DEF StudyInv, PhaseInv
<1>3. serving = {} /\ \A a \in Assignments : service[a] = None
  BY <1>0, <1>2, NothingServed
<1>4. Current \notin Pub
  BY CurrentUnpublished DEF StartDataset
<1>5. EpochInv'
  <2>1. epoch' = Replayed(Planned(Current), settled) /\ UNCHANGED <<settled, serving, service>>
    BY DEF StartDataset, root, job
  <2>2. \A a \in Planned(Current) : StateOf(a)' = IF settled[a] # None THEN settled[a] ELSE "PLANNED"
    BY <1>3, <2>1, PlansAre DEF StateOf
  <2> QED BY <1>1, <2>1, <2>2, ReplayedStates DEF EpochInv, Planned
<1>6. AnswersHeld'
  <2>1. CASE \E u \in UnitsOf(Current) : outcome[u] # "PENDING"
    BY <1>0, <1>1, <2>1 DEF LogInv, ProcessInv, AnswersHeld, StartDataset, root
  <2>2. CASE ~ \E u \in UnitsOf(Current) : outcome[u] # "PENDING"
    <3>1. ASSUME NEW u \in Units, outcome[u] = "MEASURED" PROVE DatasetOf[u] \in Pub
      <4>1. DatasetOf[u] \in Pub \cup {Current}
        BY <1>0, <1>4, <3>1, FinalSoFar DEF Final
      <4> QED BY <2>2, <3>1, <4>1 DEF UnitsOf
    <3> QED BY <1>1, <3>1 DEF AnswersHeld, StartDataset, root
  <2> QED BY <2>1, <2>2
<1>7. ServingInv' /\ ObservingInv'
  BY <1>2, <1>3 DEF LogInv, ProcessInv, ServingInv, ObservingInv, StartDataset, root, job, ledgers
<1> QED BY <1>0, <1>5, <1>6, <1>7, RunningLog DEF ProcessInv, StartDataset

LEMMA EndLog == ASSUME StudyInv, LogInv, EndDataset PROVE LogInv'
<1>0. /\ run = "running" /\ run' = "running" /\ phase' = "start" /\ pending' = {}
      /\ UNCHANGED <<root, answers, job, reserved, unwritten, observed>>
  BY DEF EndDataset
<1>1. Pub' = Pub
  BY <1>0 DEF Pub, root
<1>2. ProcessInv'
  BY <1>0, <1>1 DEF LogInv, ProcessInv, ServingInv, EpochInv, AnswersHeld, ObservingInv, root, job
<1> QED BY <1>0, <1>2, RunningLog

(* Every dataset was passed, hence published, and in order.                *)
LEMMA FinishLog == ASSUME StudyInv, LogInv, Finish PROVE LogInv'
<1>0. run = "running" /\ run' = "done" /\ at \notin DOMAIN DatasetOrder /\ UNCHANGED root
  BY DEF Finish
<1>1. at = Len(DatasetOrder) + 1
  BY <1>0, OrderIs DEF StudyInv, TypeOK
<1>2. published \in Seq(Publications)
  BY DEF StudyInv, TypeOK
<1>3. Len(published) <= Len(DatasetOrder) /\ \A i \in DOMAIN published : published[i].dataset = DatasetOrder[i]
  BY DEF LogInv, RootInv, PublishedInOrder
<1>4. Len(published) >= Len(DatasetOrder)
  <2> DEFINE n == Len(DatasetOrder)
  <2>1. CASE n = 0
    BY <1>2, <2>1
  <2>2. CASE n # 0
    <3>1. n \in DOMAIN DatasetOrder /\ n < at
      BY <1>1, <2>2, OrderIs
    <3>2. DatasetOrder[n] \in Pub
      BY <1>0, <3>1 DEF StudyInv, Passed
    <3>3. PICK i \in DOMAIN published : published[i].dataset = DatasetOrder[n]
      BY <3>2 DEF Pub
    <3>4. i \in 1..Len(published) /\ i \in DOMAIN DatasetOrder
      BY <1>2, <1>3, OrderIs
    <3>5. i = n
      BY <1>3, <3>1, <3>3, <3>4, OrderAssumption
    <3> QED BY <3>4, <3>5
  <2> QED BY <2>1, <2>2
<1>5. Len(published) = Len(DatasetOrder)
  BY <1>2, <1>3, <1>4, OrderIs
<1>6. DoneMeansDisclosed'
  BY <1>0, <1>3, <1>5 DEF DoneMeansDisclosed, root
<1>7. RootInv'
  BY <1>0, RootQuiet DEF LogInv
<1> QED BY <1>0, <1>6, <1>7 DEF LogInv, NothingRaises, ProcessInv, ServingInv, EpochInv,
                                AnswersHeld, ObservingInv

(* The row of a unit that was not served.                                  *)
LEMMA UnservedLog ==
  ASSUME StudyInv, LogInv, NEW u \in Units, NEW x \in {"HELD", "UNISSUED"}, CanStart(u),
         outcome' = [outcome EXCEPT ![u] = x],
         reserved \subseteq reserved', observed \ Plan[u] \subseteq observed',
         UNCHANGED <<settled, delivered, audited, published, ledgerRows, run, closed, at, phase,
                     epoch, answers, job, pending, unwritten>>
  PROVE  LogInv'
<1>0. run = "running" /\ run' = "running" /\ unit = {} /\ unit' = {} /\ Pub' = Pub /\ Current' = Current
      /\ DatasetOf[u] = Current /\ outcome[u] = "PENDING"
  BY DueIs DEF CanStart, Due, ToRun, Pub, Current, job
<1>1. \A v \in Units : outcome'[v] = "MEASURED" <=> outcome[v] = "MEASURED"
  BY <1>0 DEF StudyInv, TypeOK
<1>2. SettledInv' /\ RowsOnce' /\ PublishedInOrder' /\ PublishedAsSettled'
  BY <1>1 DEF LogInv, RootInv, SettledInv, RowsOnce, PublishedInOrder, PublishedAsSettled
<1>3. AnswersComplete'
  BY <1>1 DEF LogInv, RootInv, AnswersComplete, UnitsOf
<1>4. AnswersHeld'
  BY <1>0, <1>1 DEF LogInv, ProcessInv, AnswersHeld
<1>5. serving = {} /\ \A a \in Assignments : service[a] = None
  BY <1>0, NothingServed
<1>6. ServingInv'
  BY <1>0, <1>5 DEF ServingInv, job
<1>7. \A a : StateOf(a)' = StateOf(a)
  BY DEF StateOf, job
<1>8. EpochInv'
  BY <1>0, <1>7 DEF LogInv, ProcessInv, EpochInv, Planned
<1>9. Current \notin Pub
  BY <1>0 DEF StudyInv, Passed, CanStart
<1>10. ASSUME NEW i \in DOMAIN ledgerRows PROVE ledgerRows[i] \notin Plan[u]
  <2>1. PICK v \in Units : ledgerRows[i] \in Plan[v] /\ DatasetOf[v] \in Pub
    BY <1>10 DEF StudyInv, LedgerInv
  <2> QED BY <1>0, <1>9, <2>1, OnePlan
<1>11. ASSUME NEW i \in DOMAIN unwritten PROVE unwritten[i] \notin Plan[u]
  <2>1. PICK v \in Units : unwritten[i] \in Plan[v] /\ DatasetOf[v] \in Pub
    BY <1>0, <1>11 DEF StudyInv, LedgerInv
  <2> QED BY <1>0, <1>9, <2>1, OnePlan
<1>12. ObservingInv'
  BY <1>0, <1>10, <1>11 DEF LogInv, ProcessInv, ObservingInv
<1> QED BY <1>0, <1>2, <1>3, <1>4, <1>6, <1>8, <1>12
        DEF LogInv, RootInv, ProcessInv, DoneMeansDisclosed, NothingRaises

LEMMA HoldLog == ASSUME StudyInv, LogInv, NEW u \in Units, Hold(u) PROVE LogInv'
BY UnservedLog DEF Hold, process, ledgers

LEMMA UnissuedLog == ASSUME StudyInv, LogInv, NEW u \in Units, Unissued(u) PROVE LogInv'
<1>1. reserved \subseteq reserved' /\ observed \ Plan[u] \subseteq observed'
  BY DEF Unissued, Reservations
<1> QED BY <1>1, UnservedLog DEF Unissued

LEMMA IssueLog == ASSUME StudyInv, LogInv, NEW u \in Units, Issue(u) PROVE LogInv'
<1>0. /\ CanStart(u) /\ Reservations(u) /\ delivered' = delivered \cup {u} /\ unit' = {u}
      /\ answers' = (IF Plan[u] = {} THEN answers ELSE answers \cup {u})
      /\ UNCHANGED <<outcome, settled, audited, published, ledgerRows, closed, at, phase,
                     epoch, serving, service, pending, unwritten, run>>
  BY IssueCovers DEF Issue
<1>1. run = "running" /\ unit = {} /\ Pub' = Pub /\ Current' = Current
      /\ DatasetOf[u] = Current /\ outcome[u] = "PENDING" /\ phase \in {"core", "bridge"}
  BY <1>0, DueIs DEF CanStart, Due, ToRun, Pub, Current
<1>2. RootInv'
  BY <1>0 DEF LogInv, RootInv, SettledInv, RowsOnce, PublishedInOrder, PublishedAsSettled,
              AnswersComplete
<1>3. serving = {} /\ \A a \in Assignments : service[a] = None
  BY <1>1, NothingServed
<1>4. reserved \subseteq reserved' /\ observed \ Plan[u] \subseteq observed'
      /\ (u = CalibrationUnit[DatasetOf[u]] => Plan[u] \subseteq reserved')
  BY <1>0 DEF Reservations
<1>5. ServingInv'
  BY <1>0, <1>1, <1>3, <1>4 DEF ServingInv
<1>6. \A a : StateOf(a)' = StateOf(a)
  BY <1>0 DEF StateOf
<1>7. EpochInv'
  BY <1>0, <1>1, <1>6 DEF LogInv, ProcessInv, EpochInv, Planned
<1>8. AnswersHeld'
  BY <1>0, <1>1 DEF LogInv, ProcessInv, AnswersHeld
<1>9. Current \notin Pub
  BY <1>1 DEF StudyInv, Passed
<1>10. ASSUME NEW i \in DOMAIN ledgerRows PROVE ledgerRows[i] \notin Plan[u]
  <2>1. PICK v \in Units : ledgerRows[i] \in Plan[v] /\ DatasetOf[v] \in Pub
    BY <1>10 DEF StudyInv, LedgerInv
  <2> QED BY <1>1, <1>9, <2>1, OnePlan
<1>11. ASSUME NEW i \in DOMAIN unwritten PROVE unwritten[i] \notin Plan[u]
  <2>1. PICK v \in Units : unwritten[i] \in Plan[v] /\ DatasetOf[v] \in Pub
    BY <1>1, <1>11 DEF StudyInv, LedgerInv
  <2> QED BY <1>1, <1>9, <2>1, OnePlan
<1>12. ObservingInv'
  BY <1>0, <1>1, <1>4, <1>10, <1>11 DEF LogInv, ProcessInv, ObservingInv
<1> QED BY <1>0, <1>1, <1>2, <1>5, <1>7, <1>8, <1>12
        DEF LogInv, ProcessInv, DoneMeansDisclosed, NothingRaises

LEMMA BeginLog == ASSUME StudyInv, LogInv, NEW a \in Assignments, Begin(a) PROVE LogInv'
<1>1. PICK u \in unit : a \in Plan[u]
  BY DEF Begin
<1>2. MayBegin(epoch, a)
  BY <1>1, BeginMay DEF Begin
<1>3. /\ run = "running" /\ run' = "running" /\ serving = {} /\ service[a] = None
      /\ epoch' = Begun(epoch, a) /\ serving' = {a}
      /\ UNCHANGED <<root, closed, at, phase, answers, unit, service, ledgers>>
  BY <1>2 DEF Begin
<1>4. Pub' = Pub /\ Current' = Current
  BY <1>3 DEF Pub, Current, root
<1>5. ServingInv'
  BY <1>3 DEF LogInv, ProcessInv, ServingInv, root, ledgers
<1>6. EpochInv'
  <2>1. epoch \in Epochs
    BY EpochIs DEF StudyInv
  <2>2. \A b : StateOf(b)' = IF b = a THEN "RUNNING" ELSE StateOf(b)
    BY <1>3 DEF StateOf, root
  <2>3. a \in DOMAIN epoch.states
    BY <1>2 DEF MayBegin
  <2> QED BY <1>2, <1>3, <1>4, <2>1, <2>2, <2>3, BegunStates
          DEF LogInv, ProcessInv, EpochInv, Planned
<1>7. AnswersHeld' /\ ObservingInv'
  BY <1>3, <1>4 DEF LogInv, ProcessInv, AnswersHeld, ObservingInv, root, ledgers
<1> QED BY <1>3, <1>5, <1>6, <1>7, RunningLog DEF ProcessInv

LEMMA AdmitLog ==
  ASSUME StudyInv, LogInv, NEW a \in Assignments, NEW status \in Settlements, Admit(a, status)
  PROVE  LogInv'
<1>1. MayFinish(epoch, a, status)
  BY AdmitMay DEF Admit
<1>2. /\ run = "running" /\ run' = "running" /\ serving = {a} /\ serving' = {}
      /\ audited' = audited \cup {a} /\ epoch' = Finished(epoch, a, status)
      /\ service' = [service EXCEPT ![a] = status]
      /\ UNCHANGED <<outcome, settled, delivered, published, ledgerRows, closed, at, phase,
                     answers, unit, ledgers>>
  BY <1>1 DEF Admit
<1>3. Pub' = Pub /\ Current' = Current
  BY <1>2 DEF Pub, Current
<1>4. PICK u \in unit : a \in Plan[u]
  BY <1>2 DEF StudyInv, TypeOK
<1>5. RootInv'
  BY <1>2 DEF LogInv, RootInv, SettledInv, RowsOnce, PublishedInOrder, PublishedAsSettled,
              AnswersComplete
<1>6. \A b \in Assignments : service'[b] = IF b = a THEN status ELSE service[b]
  BY <1>2 DEF StudyInv, TypeOK
<1>7. ServingInv'
  BY <1>2, <1>4, <1>6 DEF LogInv, ProcessInv, ServingInv, ledgers
<1>8. EpochInv'
  <2>1. epoch \in Epochs
    BY EpochIs DEF StudyInv
  <2>2. settled[a] = None /\ status # None
    BY <1>2, <1>4, InProgress DEF Settlements, None
  <2>3. \A b \in Assignments : StateOf(b)' = IF b = a THEN status ELSE StateOf(b)
    BY <1>2, <1>6, <2>2 DEF StateOf
  <2>4. \A b \in Planned(Current) : b \in Assignments
    BY PlansAre
  <2> QED BY <1>2, <1>3, <2>1, <2>3, <2>4, FinishedStates
          DEF LogInv, ProcessInv, EpochInv, Planned
<1>9. AnswersHeld' /\ ObservingInv'
  BY <1>2, <1>3 DEF LogInv, ProcessInv, AnswersHeld, ObservingInv, ledgers
<1> QED BY <1>2, <1>5, <1>7, <1>8, <1>9 DEF LogInv, ProcessInv, DoneMeansDisclosed, NothingRaises

(* Rows and rows to come are of published datasets: not of the unit in     *)
(* progress, whose dataset is not.                                         *)
LEMMA RowsElsewhere ==
  ASSUME StudyInv, run = "running", NEW u \in unit
  PROVE  /\ u \in Units /\ DatasetOf[u] = Current /\ Current \notin Pub
         /\ phase \in {"core", "bridge"}
         /\ \A i \in DOMAIN ledgerRows : ledgerRows[i] \notin Plan[u]
         /\ \A i \in DOMAIN unwritten : unwritten[i] \notin Plan[u]
         /\ \A d \in Pub : \A a \in Planned(d) : a \notin Plan[u]
<1>1. u \in Units /\ DatasetOf[u] = Current /\ phase \in {"core", "bridge"}
  BY DEF StudyInv, TypeOK, PhaseInv
<1>2. Current \notin Pub
  BY <1>1 DEF StudyInv, Passed
<1>3. ASSUME NEW i \in DOMAIN ledgerRows PROVE ledgerRows[i] \notin Plan[u]
  <2>1. PICK v \in Units : ledgerRows[i] \in Plan[v] /\ DatasetOf[v] \in Pub
    BY <1>3 DEF StudyInv, LedgerInv
  <2> QED BY <1>1, <1>2, <2>1, OnePlan
<1>4. ASSUME NEW i \in DOMAIN unwritten PROVE unwritten[i] \notin Plan[u]
  <2>1. PICK v \in Units : unwritten[i] \in Plan[v] /\ DatasetOf[v] \in Pub
    BY <1>4 DEF StudyInv, LedgerInv
  <2> QED BY <1>1, <1>2, <2>1, OnePlan
<1>5. ASSUME NEW d \in Pub, NEW a \in Planned(d) PROVE a \notin Plan[u]
  BY <1>1, <1>2, <1>5, PlannedOnce
<1> QED BY <1>1, <1>2, <1>3, <1>4, <1>5

LEMMA FinishUnitLog == ASSUME StudyInv, LogInv, NEW u \in Units, FinishUnit(u) PROVE LogInv'
<1>0. /\ run = "running" /\ run' = "running" /\ unit = {u} /\ serving = {} /\ serving' = {}
      /\ unit' = {} /\ service' = NoService
      /\ UNCHANGED <<delivered, audited, published, ledgerRows, closed, at, phase, epoch, answers,
                     reserved, unwritten, observed>>
  BY DEF FinishUnit
<1>1. Pub' = Pub /\ Current' = Current /\ Current \notin Pub /\ DatasetOf[u] = Current
  BY <1>0, RowsElsewhere DEF Pub, Current
<1>2. \A v \in Units : outcome'[v] = IF v = u THEN "MEASURED" ELSE outcome[v]
  BY DEF FinishUnit, StudyInv, TypeOK
<1>3. \A a \in Assignments : settled'[a] = IF a \in Plan[u] THEN service[a] ELSE settled[a]
  BY DEF FinishUnit
<1>4. u \in delivered /\ (Plan[u] # {} => u \in answers) /\ outcome[u] = "PENDING"
      /\ (u = CalibrationUnit[DatasetOf[u]] => Plan[u] \subseteq reserved)
      /\ \A a \in Assignments : service[a] # None => a \in audited /\ a \in Plan[u]
  BY <1>0 DEF LogInv, ProcessInv, ServingInv
<1>5. SettledInv'
  BY <1>0, <1>2, <1>3, <1>4 DEF LogInv, RootInv, SettledInv
<1>6. RowsOnce'
  <2>1. \A i \in DOMAIN ledgerRows : ledgerRows[i] \in Assignments /\ ledgerRows[i] \notin Plan[u]
    BY <1>0, RowsElsewhere DEF StudyInv, TypeOK
  <2> QED BY <1>0, <1>3, <2>1 DEF LogInv, RootInv, RowsOnce
<1>7. PublishedInOrder'
  BY <1>0 DEF LogInv, RootInv, PublishedInOrder
<1>8. PublishedAsSettled'
  <2>1. ASSUME NEW i \in DOMAIN published, NEW a \in Planned(published[i].dataset)
        PROVE  settled'[a] = settled[a]
    <3>1. published[i].dataset \in Pub
      BY <2>1 DEF Pub
    <3>2. a \in Assignments /\ a \notin Plan[u]
      BY <1>0, <2>1, <3>1, PlansAre, RowsElsewhere
    <3> QED BY <1>3, <3>2
  <2> QED BY <1>0, <2>1 DEF LogInv, RootInv, PublishedAsSettled, Planned
<1>9. AnswersComplete'
  <2>1. \A i \in DOMAIN published : u \notin UnitsOf(published[i].dataset)
    BY <1>1 DEF Pub, UnitsOf
  <2> QED BY <1>0, <1>2, <2>1 DEF LogInv, RootInv, AnswersComplete, UnitsOf
<1>10. ServingInv'
  BY <1>0 DEF ServingInv, NoService
<1>11. EpochInv'
  <2>1. \A a \in Plan[u] : settled[a] = None
    BY <1>0, InProgress
  <2>2. \A a \in Assignments : StateOf(a)' = StateOf(a)
    BY <1>0, <1>3, <1>4, <2>1 DEF StateOf, NoService
  <2> QED BY <1>0, <1>1, <2>2, PlansAre DEF LogInv, ProcessInv, EpochInv, Planned
<1>12. AnswersHeld'
  BY <1>0, <1>1, <1>2, <1>4 DEF LogInv, ProcessInv, AnswersHeld
<1>13. ObservingInv'
  <2>1. \A v \in pending' : v \in pending \/ (v = u /\ u = CalibrationUnit[DatasetOf[u]])
    BY DEF FinishUnit
  <2>2. \A i \in DOMAIN unwritten : unwritten[i] \in Assignments /\ unwritten[i] \notin Plan[u]
    BY <1>0, RowsElsewhere DEF StudyInv, TypeOK
  <2>3. \A i \in DOMAIN ledgerRows : ledgerRows[i] \notin Plan[u]
    BY <1>0, RowsElsewhere
  <2> QED BY <1>0, <1>3, <1>4, <2>1, <2>2, <2>3 DEF LogInv, ProcessInv, ObservingInv
<1> QED BY <1>0, <1>5, <1>6, <1>7, <1>8, <1>9, <1>10, <1>11, <1>12, <1>13
        DEF LogInv, RootInv, ProcessInv, DoneMeansDisclosed, NothingRaises

(* What is published next is the dataset at hand: no earlier one is left   *)
(* and no later one is out.                                                *)
LEMMA NextPublished ==
  ASSUME StudyInv, LogInv, run = "running", phase = "close"
  PROVE  at = Len(published) + 1 /\ at \in DOMAIN DatasetOrder /\ Current \notin Pub
<1> DEFINE n == Len(published)
<1>1. at \in DOMAIN DatasetOrder /\ Current \notin Pub
  BY DEF StudyInv, InPhase, Passed
<1>2. published \in Seq(Publications) /\ n \in Nat /\ DOMAIN published = 1..n
  BY DEF StudyInv, TypeOK
<1>3. n <= Len(DatasetOrder) /\ \A i \in 1..n : published[i].dataset = DatasetOrder[i]
  BY <1>2 DEF LogInv, RootInv, PublishedInOrder
<1>4. at > n
  <2> SUFFICES ASSUME at <= n PROVE FALSE
    BY <1>1, <1>2, OrderIs
  <2>1. at \in 1..n
    BY <1>1, <1>2, OrderIs
  <2>2. published[at].dataset = Current
    BY <1>3, <2>1 DEF Current
  <2> QED BY <1>1, <1>2, <2>1, <2>2 DEF Pub
<1>5. at <= n + 1
  <2> SUFFICES ASSUME n + 1 < at PROVE FALSE
    BY <1>1, <1>2, OrderIs
  <2>1. n + 1 \in DOMAIN DatasetOrder
    BY <1>1, <1>2, OrderIs
  <2>2. DatasetOrder[n + 1] \in Pub
    BY <2>1 DEF StudyInv, Passed
  <2>3. PICK i \in DOMAIN published : published[i].dataset = DatasetOrder[n + 1]
    BY <2>2 DEF Pub
  <2>4. i \in 1..n /\ i \in DOMAIN DatasetOrder /\ DatasetOrder[i] = DatasetOrder[n + 1]
    BY <1>2, <1>3, <2>3, OrderIs
  <2>5. i = n + 1
    BY <2>1, <2>4, OrderAssumption
  <2> QED BY <1>2, <2>4, <2>5
<1> QED BY <1>1, <1>2, <1>4, <1>5, OrderIs

LEMMA DiscloseLog == ASSUME StudyInv, LogInv, Disclose PROVE LogInv'
<1>0. /\ run = "running" /\ run' = "running" /\ phase = "close" /\ phase' = "observe"
      /\ published' = Append(published, Publication)
      /\ UNCHANGED <<outcome, settled, delivered, audited, ledgerRows, closed, at, answers, job,
                     ledgers>>
  BY CloseMay DEF Disclose
<1>1. at = Len(published) + 1 /\ at \in DOMAIN DatasetOrder /\ Current \notin Pub
  BY <1>0, NextPublished
<1>2. published \in Seq(Publications) /\ Publication \in Publications
      /\ Publication.dataset = Current /\ Publication.states = Closed(epoch).states
      /\ Publication.answers = answers
  BY <1>1, PublicationIs DEF StudyInv, TypeOK, Publication
<1>a. published' = Append(published, Publication)
  BY <1>0
<1>3. /\ Len(published') = Len(published) + 1
      /\ \A i \in DOMAIN published' :
           \/ i \in DOMAIN published /\ published'[i] = published[i]
           \/ i = at /\ published'[i] = Publication
      /\ DOMAIN published \subseteq DOMAIN published'
  BY <1>a, <1>1, <1>2
<1>4. \A i \in DOMAIN published : published'[i] = published[i]
  BY <1>a, <1>2
<1>5. Pub \subseteq Pub'
  BY <1>3, <1>4 DEF Pub
<1>6. SettledInv' /\ RowsOnce'
  BY <1>0 DEF LogInv, RootInv, SettledInv, RowsOnce
<1>7. PublishedInOrder'
  <2>1. Len(published') <= Len(DatasetOrder)
    BY <1>1, <1>3, OrderIs
  <2>2. \A i \in DOMAIN published' : published'[i].dataset = DatasetOrder[i]
    BY <1>2, <1>3 DEF LogInv, RootInv, PublishedInOrder, Current
  <2> QED BY <2>1, <2>2 DEF PublishedInOrder
<1>8. PublishedAsSettled'
  <2>1. DOMAIN Publication.states = Planned(Current)
        /\ \A a \in Planned(Current) :
             Publication.states[a] = IF settled[a] = None THEN "NOT_ACTIVATED" ELSE settled[a]
    BY <1>0, <1>2, CloseMay
  <2> QED BY <1>0, <1>2, <1>3, <2>1 DEF LogInv, RootInv, PublishedAsSettled, Planned
<1>9. AnswersComplete'
  <2>1. \A u \in UnitsOf(Current) : outcome[u] = "MEASURED" /\ Plan[u] # {} => u \in Publication.answers
    BY <1>0, <1>1, <1>2 DEF LogInv, ProcessInv, AnswersHeld, UnitsOf
  <2> QED BY <1>0, <1>2, <1>3, <2>1 DEF LogInv, RootInv, AnswersComplete
<1>10. ServingInv' /\ EpochInv' /\ ObservingInv'
  BY <1>0 DEF LogInv, ProcessInv, ServingInv, EpochInv, ObservingInv, job, ledgers
<1>11. AnswersHeld'
  BY <1>0, <1>5 DEF LogInv, ProcessInv, AnswersHeld
<1> QED BY <1>0, <1>6, <1>7, <1>8, <1>9, <1>10, <1>11
        DEF LogInv, RootInv, ProcessInv, DoneMeansDisclosed, NothingRaises

LEMMA ObserveLog == ASSUME StudyInv, LogInv, NEW a \in Assignments, Observe(a) PROVE LogInv'
<1>0. /\ run = "running" /\ run' = "running" /\ a \in ToObserve /\ phase = "observe"
      /\ observed' = observed \cup {a} /\ unwritten' = Append(unwritten, a)
      /\ UNCHANGED <<root, closed, at, phase, epoch, answers, job, reserved, pending>>
  BY ObservedReserved DEF Observe
<1>1. Pub' = Pub
  BY <1>0 DEF Pub, root
<1>2. PICK u \in pending : a \in Plan[u]
  BY <1>0 DEF ToObserve
<1>3. a \notin observed /\ settled[a] # None /\ \A k \in DOMAIN ledgerRows : ledgerRows[k] # a
  BY <1>0, <1>2 DEF ToObserve, LogInv, ProcessInv, ObservingInv
<1>4. unwritten \in Seq(Assignments) /\ unwritten' = Append(unwritten, a)
  BY <1>0 DEF StudyInv, TypeOK
<1>5. /\ DOMAIN unwritten' = DOMAIN unwritten \cup {Len(unwritten) + 1}
      /\ Len(unwritten) + 1 \notin DOMAIN unwritten /\ unwritten'[Len(unwritten) + 1] = a
      /\ \A i \in DOMAIN unwritten : unwritten'[i] = unwritten[i]
  BY <1>4
<1>6. ObservingInv'
  BY <1>0, <1>3, <1>5 DEF LogInv, ProcessInv, ObservingInv, root
<1>7. ServingInv' /\ EpochInv' /\ AnswersHeld'
  BY <1>0, <1>1 DEF LogInv, ProcessInv, ServingInv, EpochInv, AnswersHeld, root, job
<1> QED BY <1>0, <1>6, <1>7, RunningLog DEF ProcessInv

LEMMA WriteRowLog == ASSUME StudyInv, LogInv, WriteRow PROVE LogInv'
<1>0. /\ run = "running" /\ run' = "running" /\ unwritten # <<>> /\ phase = "observe"
      /\ ledgerRows' = Append(ledgerRows, Head(unwritten)) /\ unwritten' = Tail(unwritten)
      /\ UNCHANGED <<outcome, settled, delivered, audited, published, closed, at, phase, epoch,
                     answers, job, reserved, pending, observed>>
  BY DEF WriteRow
<1>1. Pub' = Pub
  BY <1>0 DEF Pub
<1>2. unwritten \in Seq(Assignments) /\ ledgerRows \in Seq(Assignments)
  BY DEF StudyInv, TypeOK
<1>3. 1 \in DOMAIN unwritten /\ Head(unwritten) = unwritten[1]
  BY <1>0, <1>2
<1>4. \A i \in DOMAIN unwritten' :
        i + 1 \in DOMAIN unwritten /\ i + 1 # 1 /\ unwritten'[i] = unwritten[i + 1]
  BY <1>0, <1>2
<1>5. /\ DOMAIN ledgerRows' = DOMAIN ledgerRows \cup {Len(ledgerRows) + 1}
      /\ Len(ledgerRows) + 1 \notin DOMAIN ledgerRows
      /\ ledgerRows'[Len(ledgerRows) + 1] = unwritten[1]
      /\ \A i \in DOMAIN ledgerRows : ledgerRows'[i] = ledgerRows[i]
  BY <1>0, <1>2, <1>3
<1>6. /\ unwritten[1] \in observed /\ settled[unwritten[1]] # None
      /\ \A k \in DOMAIN ledgerRows : ledgerRows[k] # unwritten[1]
  BY <1>0, <1>3 DEF LogInv, ProcessInv, ObservingInv
<1>7. RowsOnce'
  BY <1>0, <1>5, <1>6 DEF LogInv, RootInv, RowsOnce
<1>8. ObservingInv'
  <2>1. \A i \in DOMAIN ledgerRows' : \A u \in pending :
          ledgerRows'[i] \in Plan[u] => ledgerRows'[i] \in observed
    BY <1>0, <1>5, <1>6 DEF LogInv, ProcessInv, ObservingInv
  <2>2. ASSUME NEW i \in DOMAIN unwritten'
        PROVE  /\ unwritten'[i] \in observed /\ settled[unwritten'[i]] # None
               /\ \A k \in DOMAIN ledgerRows' : ledgerRows'[k] # unwritten'[i]
               /\ \A k \in DOMAIN unwritten' \ {i} : unwritten'[k] # unwritten'[i]
    <3>1. i + 1 \in DOMAIN unwritten /\ i + 1 # 1 /\ unwritten'[i] = unwritten[i + 1] /\ i \in Int
      BY <1>0, <1>2, <2>2
    <3>2. /\ unwritten[i + 1] \in observed /\ settled[unwritten[i + 1]] # None
          /\ \A k \in DOMAIN ledgerRows : ledgerRows[k] # unwritten[i + 1]
          /\ \A k \in DOMAIN unwritten \ {i + 1} : unwritten[k] # unwritten[i + 1]
      BY <1>0, <3>1 DEF LogInv, ProcessInv, ObservingInv
    <3>3. \A k \in DOMAIN ledgerRows' : ledgerRows'[k] # unwritten'[i]
      BY <1>3, <1>5, <3>1, <3>2
    <3>4. ASSUME NEW k \in DOMAIN unwritten' \ {i} PROVE unwritten'[k] # unwritten'[i]
      <4>1. k + 1 \in DOMAIN unwritten /\ unwritten'[k] = unwritten[k + 1] /\ k + 1 # i + 1
        BY <1>0, <1>2, <2>2, <3>4
      <4> QED BY <3>1, <3>2, <4>1
    <3> QED BY <3>1, <3>2, <3>3, <3>4
  <2> QED BY <1>0, <2>1, <2>2 DEF LogInv, ProcessInv, ObservingInv
<1>9. SettledInv' /\ PublishedInOrder' /\ PublishedAsSettled' /\ AnswersComplete'
  BY <1>0 DEF LogInv, RootInv, SettledInv, PublishedInOrder, PublishedAsSettled, AnswersComplete
<1>10. ServingInv' /\ EpochInv' /\ AnswersHeld'
  BY <1>0, <1>1 DEF LogInv, ProcessInv, ServingInv, EpochInv, AnswersHeld, job
<1> QED BY <1>0, <1>7, <1>8, <1>9, <1>10
        DEF LogInv, RootInv, ProcessInv, DoneMeansDisclosed, NothingRaises

(* A continuation keeps what the log and the rows speak of: the units of   *)
(* every published dataset are among those the manifest names.             *)
LEMMA ContinueLog ==
  ASSUME StudyInv, LogInv, NEW done \in SUBSET Finalised, NEW shut \in SUBSET Datasets,
         Continue(done, shut)
  PROVE  LogInv'
<1>0. /\ Acceptable(done, shut) /\ run' = "running"
      /\ outcome' = [u \in Units |-> IF u \in done THEN outcome[u] ELSE "PENDING"]
      /\ settled' = [a \in Assignments |-> IF a \in Kept(done) THEN settled[a] ELSE None]
      /\ audited' = audited \cap Kept(done) /\ delivered' = delivered \cap done
      /\ answers' = {u \in delivered \cap done : Plan[u] # {}}
      /\ pending' = RestoredJobs(done, shut) /\ reserved' = Reserving(RestoredJobs(done, shut))
      /\ phase' = "start" /\ unit' = {} /\ serving' = {} /\ service' = NoService
      /\ unwritten' = <<>> /\ UNCHANGED ledgerRows
  BY DEF Continue, Started, RetainedAudits
<1>1. shut = Pub /\ published' = published
  BY <1>0, ClosedIsPublished DEF Continue
<1>2. Pub' = Pub
  BY <1>1 DEF Pub
<1>3. done \subseteq Units
  BY DEF Finalised
<1>4. \A d \in Pub : UnitsOf(d) \subseteq done /\ Planned(d) \subseteq Kept(done)
  BY <1>0, <1>1 DEF Acceptable, Planned, Kept
<1>5. \A u \in Units : \A a \in Plan[u] : a \in Kept(done) => u \in done
  BY <1>3, OnePlan DEF Kept
<1>6. SettledInv'
  <2>1. \A a \in Assignments : settled'[a] # None => a \in Kept(done) /\ settled[a] # None
    BY <1>0
  <2>2. \A u \in Units : outcome'[u] = "MEASURED" => u \in done /\ outcome[u] = "MEASURED"
    BY <1>0
  <2>3. \A u \in done : outcome'[u] = outcome[u]
    BY <1>0, <1>3
  <2> QED BY <1>0, <1>5, <2>1, <2>2, <2>3 DEF LogInv, RootInv, SettledInv
<1>7. RowsOnce'
  <2>1. ASSUME NEW i \in DOMAIN ledgerRows PROVE settled'[ledgerRows[i]] = settled[ledgerRows[i]]
    <3>1. PICK u \in Units : ledgerRows[i] \in Plan[u] /\ DatasetOf[u] \in Pub
      BY <2>1 DEF StudyInv, LedgerInv
    <3>2. ledgerRows[i] \in Assignments /\ ledgerRows[i] \in Kept(done)
      BY <1>4, <3>1, PlannedIs
    <3> QED BY <1>0, <3>2
  <2> QED BY <1>0, <2>1 DEF LogInv, RootInv, RowsOnce
<1>8. PublishedInOrder'
  BY <1>1 DEF LogInv, RootInv, PublishedInOrder
<1>9. PublishedAsSettled'
  <2>1. ASSUME NEW i \in DOMAIN published, NEW a \in Planned(published[i].dataset)
        PROVE  settled'[a] = settled[a]
    <3>1. a \in Assignments /\ a \in Kept(done)
      BY <1>4, <2>1, PlansAre DEF Pub
    <3> QED BY <1>0, <3>1
  <2> QED BY <1>1, <2>1 DEF LogInv, RootInv, PublishedAsSettled, Planned
<1>10. AnswersComplete'
  <2>1. \A u \in Units : outcome'[u] = "MEASURED" => outcome[u] = "MEASURED"
    BY <1>0
  <2> QED BY <1>1, <2>1 DEF LogInv, RootInv, AnswersComplete, UnitsOf
<1>11. ServingInv' /\ EpochInv'
  BY <1>0 DEF ServingInv, EpochInv, NoService
<1>12. AnswersHeld'
  <2>1. \A u \in Units : outcome'[u] = "MEASURED" => u \in done /\ u \in delivered
    BY <1>0 DEF LogInv, RootInv, SettledInv
  <2> QED BY <1>0, <2>1 DEF AnswersHeld
<1>13. ObservingInv'
  <2>1. \A u \in pending' : u \in Units /\ DatasetOf[u] \notin Pub /\ Plan[u] \subseteq reserved'
    BY <1>0, <1>1, <1>3 DEF RestoredJobs, Reserving
  <2>2. ASSUME NEW i \in DOMAIN ledgerRows, NEW u \in pending' PROVE ledgerRows[i] \notin Plan[u]
    <3>1. PICK v \in Units : ledgerRows[i] \in Plan[v] /\ DatasetOf[v] \in Pub
      BY <2>2 DEF StudyInv, LedgerInv
    <3> QED BY <2>1, <2>2, <3>1, OnePlan
  <2>3. DOMAIN unwritten' = {}
    BY <1>0
  <2> QED BY <1>0, <2>1, <2>2, <2>3 DEF ObservingInv
<1> QED BY <1>0, <1>6, <1>7, <1>8, <1>9, <1>10, <1>11, <1>12, <1>13
        DEF LogInv, RootInv, ProcessInv, DoneMeansDisclosed, NothingRaises

LEMMA LogStep == StudyInv /\ LogInv /\ [Next]_vars => LogInv'
<1> SUFFICES ASSUME StudyInv, LogInv, [Next]_vars PROVE LogInv'
  OBVIOUS
<1>1. ASSUME NEW u \in Units, UnitStep(u) PROVE LogInv'
  BY <1>1, HoldLog, UnissuedLog, IssueLog, FinishUnitLog DEF UnitStep
<1>2. ASSUME NEW a \in Assignments, AssignmentStep(a) PROVE LogInv'
  BY <1>2, BeginLog, AdmitLog, ObserveLog DEF AssignmentStep
<1>3. CASE Step
  BY <1>1, <1>2, <1>3, SkipLog, StartLog, NextPhaseLog, FinishLog, DiscloseLog, WriteRowLog, EndLog
     DEF Step
<1>4. CASE Stop
  BY <1>4, HaltedLog DEF Stop
<1>5. CASE Continuation
  BY <1>5, ContinueLog, HaltedLog DEF Continuation, Refuse
<1>6. CASE UNCHANGED vars
  <2>1. RootInv'
    BY <1>6, RootQuiet DEF LogInv, vars
  <2>2. Pub' = Pub /\ Current' = Current /\ \A a : StateOf(a)' = StateOf(a)
    BY <1>6 DEF vars, root, process, job, Pub, Current, StateOf
  <2>3. EpochInv'
    BY <1>6, <2>2 DEF vars, process, LogInv, ProcessInv, EpochInv, Planned
  <2>4. ServingInv' /\ AnswersHeld' /\ ObservingInv'
    BY <1>6, <2>2 DEF vars, root, process, job, ledgers, LogInv, ProcessInv, ServingInv,
                      AnswersHeld, ObservingInv
  <2> QED BY <1>6, <2>1, <2>3, <2>4
          DEF vars, root, process, LogInv, ProcessInv, DoneMeansDisclosed, NothingRaises
<1> QED BY <1>3, <1>4, <1>5, <1>6 DEF Next

(* Over any number of stops and continuations what the run root says, the  *)
(* epoch and the calibration ledger agree on every assignment.             *)
THEOREM LogInvariance == Spec => [](StudyInv /\ LogInv)
<1>1. StudyInv /\ LogInv /\ [Next]_vars => (StudyInv /\ LogInv)'
  BY StudyStep, LogStep
<1>2. Init => StudyInv /\ LogInv
  BY InitTypeOK, StudyInit, InitLog DEF Init, InPhase, StudyInv, Rest
<1> QED BY <1>1, <1>2, PTL DEF Spec

(* No schedule, with any number of stops and continuations, runs into a    *)
(* check of the epoch or of a calibration ledger.                          *)
THEOREM NothingRaisesAlways == Spec => []NothingRaises
<1>1. LogInv => NothingRaises
  BY DEF LogInv
<1> QED BY <1>1, LogInvariance, PTL

(* The effective log, whatever continuations copied of it, is complete:    *)
(* an assignment is published after its audit was drawn, as it settled,    *)
(* with every answer of its unit; no dataset is published twice, and a     *)
(* study that ends has disclosed all of them in order.                     *)
THEOREM EffectiveLogCompleteAlways == Spec => []EffectiveLogComplete
<1>1. StudyInv /\ LogInv => EffectiveLogComplete
  <2> SUFFICES ASSUME StudyInv, LogInv PROVE PublishedAfterAudit
    BY DEF LogInv, RootInv, EffectiveLogComplete
  <2> SUFFICES ASSUME NEW i \in DOMAIN published
               PROVE  /\ \A a \in DOMAIN published[i].states :
                           published[i].states[a] # "NOT_ACTIVATED" => a \in audited
                      /\ \A k \in DOMAIN published \ {i} : published[k].dataset # published[i].dataset
    BY DEF PublishedAfterAudit
  <2>1. ASSUME NEW a \in DOMAIN published[i].states, published[i].states[a] # "NOT_ACTIVATED"
        PROVE  a \in audited
    <3>1. a \in Planned(published[i].dataset) /\ settled[a] # None
      BY <2>1 DEF LogInv, RootInv, PublishedAsSettled
    <3> QED BY <3>1, PlansAre DEF LogInv, RootInv, SettledInv
  <2>2. ASSUME NEW k \in DOMAIN published, k # i
        PROVE  published[k].dataset # published[i].dataset
    <3>1. published \in Seq(Publications) /\ Len(published) <= Len(DatasetOrder)
      BY DEF StudyInv, TypeOK, LogInv, RootInv, PublishedInOrder
    <3>2. i \in DOMAIN DatasetOrder /\ k \in DOMAIN DatasetOrder
      BY <2>2, <3>1, OrderIs
    <3> QED BY <2>2, <3>2, OrderAssumption DEF LogInv, RootInv, PublishedInOrder
  <2> QED BY <2>1, <2>2
<1> QED BY <1>1, LogInvariance, PTL

(* A calibration row is of a settled assignment of a disclosed dataset,    *)
(* and no assignment has two, however often the calibration was resumed.   *)
THEOREM CalibratedOnceAlways == Spec => []CalibratedOnceAfterDisclosure
<1>1. StudyInv /\ LogInv => CalibratedOnceAfterDisclosure
  <2> SUFFICES ASSUME StudyInv, LogInv, NEW i \in DOMAIN ledgerRows
               PROVE  \E k \in DOMAIN published : ledgerRows[i] \in DOMAIN published[k].states
    BY DEF LogInv, RootInv, RowsOnce, CalibratedOnceAfterDisclosure
  <2>1. PICK u \in Units : ledgerRows[i] \in Plan[u] /\ DatasetOf[u] \in Pub
    BY DEF StudyInv, LedgerInv
  <2>2. PICK k \in DOMAIN published : published[k].dataset = DatasetOf[u]
    BY <2>1 DEF Pub
  <2>3. DOMAIN published[k].states = Planned(DatasetOf[u])
    BY <2>2 DEF LogInv, RootInv, PublishedAsSettled
  <2> QED BY <2>1, <2>3, PlannedIs
<1> QED BY <1>1, LogInvariance, PTL

-------------------------------------------------------------------------------
(* The calibration ledger                                                  *)

(* CalibrationFunded counts opportunities, so the induction also says that *)
(* there are finitely many.                                                *)
FundedInv == IsFiniteSet(DOMAIN reservations) /\ CalibrationFunded

(* Reserving: what is promised grows by one assignment, whose block nobody *)
(* else replays.                                                           *)
LEMMA ReserveHolds ==
  ASSUME FundedInv, NEW a \in CalibrationAssignments, NEW block \in Blocks, Reserve(a, block)
  PROVE  FundedInv'
<1>1. /\ a \notin DOMAIN reservations
      /\ \A other \in DOMAIN reservations : reservations[other] # block
      /\ Reserved(Opportunities + 1) <= Budget + Tolerance
      /\ reservations' = Extend(reservations, a, block) /\ observations' = observations
  BY DEF Reserve, MayReserve
<1>2. /\ DOMAIN reservations' = DOMAIN reservations \cup {a}
      /\ reservations'[a] = block
      /\ \A x \in DOMAIN reservations : reservations'[x] = reservations[x]
  BY <1>1 DEF Extend
<1>3. IsFiniteSet(DOMAIN reservations') /\ Opportunities' = Opportunities + 1
  BY <1>1, <1>2, FS_AddElement DEF FundedInv, Opportunities
<1>4. Reserved(Opportunities') <= Budget + Tolerance
  BY <1>1, <1>3
<1>5. /\ DOMAIN observations' \subseteq DOMAIN reservations'
      /\ \A b \in DOMAIN observations' :
           observations'[b].fee + observations'[b].cost <= Each + Tolerance
  BY <1>1, <1>2 DEF FundedInv, CalibrationFunded
<1>6. \A b, c \in DOMAIN reservations' : reservations'[b] = reservations'[c] => b = c
  BY <1>1, <1>2 DEF FundedInv, CalibrationFunded
<1> QED
  BY <1>3, <1>4, <1>5, <1>6 DEF FundedInv, CalibrationFunded, Each

(* Recording: the fee is at most what was posted, the replay at most what  *)
(* was set aside for it.                                                   *)
LEMMA RecordHolds ==
  ASSUME FundedInv, NEW a, NEW settlement \in CalibrationSettlements, NEW timely \in BOOLEAN,
         NEW answer, NEW ownerCost \in OwnerCosts,
         Record(a, settlement, timely, answer, ownerCost)
  PROVE  FundedInv'
<1> DEFINE seen == Observation(settlement, timely, answer, ownerCost)
<1>1. /\ a \in DOMAIN reservations
      /\ ownerCost <= OwnerReserve /\ settlement.fee <= FeePosted + Tolerance
      /\ observations' = Extend(observations, a, seen) /\ reservations' = reservations
  BY DEF Record, MayRecord
<1>2. seen.fee + seen.cost <= Each + Tolerance
  <2>1. /\ settlement.fee \in Nat /\ ownerCost \in Nat
        /\ FeePosted \in Nat /\ OwnerReserve \in Nat
    BY CalibrationAssumption
  <2>2. seen.fee = settlement.fee /\ seen.cost = ownerCost
    BY DEF Observation
  <2> QED  BY <1>1, <2>1, <2>2 DEF Each, Tolerance
<1> HIDE DEF seen
<1>3. /\ DOMAIN observations' = DOMAIN observations \cup {a}
      /\ observations'[a] = seen
      /\ \A x \in DOMAIN observations \ {a} : observations'[x] = observations[x]
  BY <1>1 DEF Extend
<1>4. /\ DOMAIN observations' \subseteq DOMAIN reservations'
      /\ \A b \in DOMAIN observations' :
           observations'[b].fee + observations'[b].cost <= Each + Tolerance
  BY <1>1, <1>2, <1>3 DEF FundedInv, CalibrationFunded
<1> QED
  BY <1>1, <1>4 DEF FundedInv, CalibrationFunded, Opportunities, Reserved, Each

LEMMA FundedFirst == LedgerInit => FundedInv
<1> SUFFICES ASSUME LedgerInit PROVE FundedInv
  OBVIOUS
<1>1. DOMAIN reservations = {} /\ DOMAIN observations = {}
  BY DEF LedgerInit
<1>2. IsFiniteSet(DOMAIN reservations) /\ Opportunities = 0
  BY <1>1, FS_EmptySet DEF Opportunities
<1>3. Reserved(Opportunities) <= Budget + Tolerance
  BY <1>2, CalibrationAssumption DEF Reserved, Each, Tolerance
<1> QED  BY <1>1, <1>2, <1>3 DEF FundedInv, CalibrationFunded

LEMMA FundedKept == FundedInv /\ [LedgerNext]_ledger => FundedInv'
<1> SUFFICES ASSUME FundedInv, [LedgerNext]_ledger PROVE FundedInv'
  OBVIOUS
<1>1. CASE \E a \in CalibrationAssignments, block \in Blocks : Reserve(a, block)
  BY <1>1, ReserveHolds
<1>2. CASE \E a \in CalibrationAssignments, settlement \in CalibrationSettlements, timely \in BOOLEAN,
              answer \in Answers, ownerCost \in OwnerCosts :
             Record(a, settlement, timely, answer, ownerCost)
  BY <1>2, RecordHolds
<1>3. CASE UNCHANGED ledger
  BY <1>3 DEF ledger, FundedInv, CalibrationFunded, Opportunities, Reserved, Each
<1> QED  BY <1>1, <1>2, <1>3 DEF LedgerNext

(* The calibration ledger never promises more than its budget, pays no     *)
(* assignment more than was reserved for it, and counts no source block    *)
(* twice, whatever its amounts and however its calls are ordered           *)
(* (PaidCalibrationLedger.reserve and record).                             *)
THEOREM CalibrationFundedAlways == LedgerSpec => []CalibrationFunded
<1>1. FundedInv => CalibrationFunded
  BY DEF FundedInv
<1> QED  BY FundedFirst, FundedKept, <1>1, PTL DEF LedgerSpec

-------------------------------------------------------------------------------
(* Admission by confidence bounds                                          *)

LEMMA Powers ==
  ASSUME NEW b \in Nat
  PROVE  /\ Power(b, 0) = 1
         /\ \A n \in Nat : Power(b, n + 1) = b * Power(b, n)
         /\ \A n \in Nat : Power(b, n) \in Nat
<1> DEFINE power == CHOOSE f : f = [n \in Nat |-> IF n = 0 THEN 1 ELSE b * f[n - 1]]
<1>1. power = [n \in Nat |-> IF n = 0 THEN 1 ELSE b * power[n - 1]]
  BY PowersExist
<1>2. \A n : Power(b, n) = power[n]
  BY DEF Power
<1> HIDE DEF power
<1>3. /\ power[0] = 1
      /\ \A n \in Nat : power[n + 1] = b * power[n]
      /\ \A n \in Nat : power[n] \in Nat
  BY <1>1, PowersExist
<1> QED  BY <1>2, <1>3

(* One more trial of probability p.                                        *)
LEMMA ChancesOfOneMore ==
  ASSUME NEW p \in 0..Unit, NEW n \in Nat
  PROVE  /\ \A x \in 0..n : Chances(p, n)[x] \in Nat
         /\ Trial(Chances(p, n), n, p, Unit - p, Chances(p, n + 1))
<1> DEFINE q == Unit - p
           w == Chances(p, n)
           v == Chances(p, n + 1)
<1>1. p \in Nat /\ q \in Nat /\ n + 1 \in Nat
  BY CalibrationAssumption
<1>2. /\ Power(p, 0) = 1 /\ Power(q, 0) = 1
      /\ \A m \in Nat : Power(p, m + 1) = p * Power(p, m) /\ Power(q, m + 1) = q * Power(q, m)
      /\ \A m \in Nat : Power(p, m) \in Nat /\ Power(q, m) \in Nat
  <2> HIDE DEF q
  <2> QED  BY <1>1, Powers
<1>3. /\ \A x \in 0..n : w[x] = choose(n, x) * (Power(p, x) * Power(q, n - x))
      /\ \A x \in 0..(n + 1) : v[x] = choose(n + 1, x) * (Power(p, x) * Power(q, (n + 1) - x))
  BY DEF Chances
<1> HIDE DEF q, w, v
<1>4. \A a, b, c \in Nat : a * (b * c) \in Nat
  OBVIOUS
<1>5. ASSUME NEW x \in 0..n PROVE w[x] \in Nat
  <2>1. x \in Nat /\ n - x \in Nat /\ choose(n, x) \in Nat
    BY ChoiceTriangle
  <2> QED  BY <1>2, <1>3, <1>4, <2>1
<1>6. v[0] = q * w[0]
  <2>1. 0 \in 0..n /\ 0 \in 0..(n + 1) /\ n - 0 = n /\ (n + 1) - 0 = n + 1
    OBVIOUS
  <2>2. w[0] = 1 * (1 * Power(q, n)) /\ v[0] = 1 * (1 * (q * Power(q, n)))
    BY <1>1, <1>2, <1>3, <2>1, ChoiceTriangle
  <2>3. Power(q, n) \in Nat
    BY <1>2
  <2>4. \A a, b \in Nat : 1 * (1 * (a * b)) = a * (1 * (1 * b))
    OBVIOUS
  <2> QED  BY <1>1, <2>2, <2>3, <2>4
<1>7. v[n + 1] = p * w[n]
  <2>1. n \in 0..n /\ n + 1 \in 0..(n + 1) /\ n - n = 0 /\ (n + 1) - (n + 1) = 0
    OBVIOUS
  <2>2. w[n] = 1 * (Power(p, n) * 1) /\ v[n + 1] = 1 * ((p * Power(p, n)) * 1)
    BY <1>1, <1>2, <1>3, <2>1, ChoiceTriangle
  <2>3. Power(p, n) \in Nat
    BY <1>2
  <2>4. \A a, b \in Nat : 1 * ((a * b) * 1) = a * (1 * (b * 1))
    OBVIOUS
  <2> QED  BY <1>1, <2>2, <2>3, <2>4
<1>8. ASSUME NEW x \in 1..n PROVE v[x] = p * w[x - 1] + q * w[x]
  <2> DEFINE A == Power(p, x - 1)
             B == Power(q, n - x)
             C == choose(n, x)
             D == choose(n, x - 1)
  <2>1. /\ x \in 0..n /\ x - 1 \in 0..n /\ x \in 0..(n + 1)
        /\ x - 1 \in Nat /\ n - x \in Nat /\ (x - 1) + 1 = x
        /\ n - (x - 1) = (n - x) + 1 /\ (n + 1) - x = (n - x) + 1
    OBVIOUS
  <2>2. Power(p, x) = p * A /\ Power(q, (n - x) + 1) = q * B /\ A \in Nat /\ B \in Nat
    BY <1>2, <2>1
  <2>3. choose(n + 1, x) = C + D /\ C \in Nat /\ D \in Nat
    BY <2>1, ChoiceTriangle
  <2>4. w[x] = C * ((p * A) * B) /\ w[x - 1] = D * (A * (q * B))
        /\ v[x] = (C + D) * ((p * A) * (q * B))
    BY <1>3, <2>1, <2>2, <2>3
  <2> HIDE DEF A, B, C, D
  <2>5. \A a, b, c, d, e, f \in Nat :
          (c + d) * ((e * a) * (f * b)) = e * (d * (a * (f * b))) + f * (c * ((e * a) * b))
    OBVIOUS
  <2> QED  BY <1>1, <2>2, <2>3, <2>4, <2>5
<1>9. Trial(w, n, p, q, v)
  BY <1>6, <1>7, <1>8 DEF Trial
<1> QED  BY <1>5, <1>9 DEF w, v, q

(* The tails of the binomial law, trial by trial and from k on.            *)
LEMMA Tails ==
  ASSUME NEW p \in 0..Unit, NEW n \in Nat
  PROVE  /\ \A k \in 0..(n + 1) : TailAt(p, k, n) \in Nat
         /\ \A k \in 0..n : TailAt(p, k + 1, n) <= TailAt(p, k, n)
         /\ TailAt(p, n + 1, n) = 0
         /\ \A k \in 1..(n + 1) :
              TailAt(p, k, n + 1) = p * TailAt(p, k - 1, n) + (Unit - p) * TailAt(p, k, n)
         /\ TailAt(p, 0, n + 1) = Unit * TailAt(p, 0, n)
<1> DEFINE q == Unit - p
           w == Chances(p, n)
           v == Chances(p, n + 1)
<1>1. p \in Nat /\ q \in Nat /\ p + q = Unit /\ n + 1 \in Nat
  BY CalibrationAssumption
<1>2. /\ \A k : TailAt(p, k, n) = SumOf(w, k..n)
      /\ \A k : TailAt(p, k, n + 1) = SumOf(v, k..(n + 1))
  BY DEF TailAt, SumOf
<1>3. (\A x \in 0..n : w[x] \in Nat) /\ Trial(w, n, p, q, v)
  BY ChancesOfOneMore
<1> HIDE DEF q, w, v
<1>4. /\ \A k \in 0..(n + 1) : SumOf(w, k..n) \in Nat
      /\ \A k \in 0..n : SumOf(w, k..n) = w[k] + SumOf(w, (k + 1)..n)
      /\ SumOf(w, (n + 1)..n) = 0
  BY <1>3, SumFromFirst
<1>5. /\ \A k \in 1..(n + 1) :
           SumOf(v, k..(n + 1)) = p * SumOf(w, (k - 1)..n) + q * SumOf(w, k..n)
      /\ SumOf(v, 0..(n + 1)) = (p + q) * SumOf(w, 0..n)
  BY <1>1, <1>3, OneMoreTrial
<1>6. ASSUME NEW k \in 0..n PROVE TailAt(p, k + 1, n) <= TailAt(p, k, n)
  <2>1. k + 1 \in 0..(n + 1) /\ w[k] \in Nat
    BY <1>3
  <2>2. SumOf(w, (k + 1)..n) \in Nat /\ SumOf(w, k..n) = w[k] + SumOf(w, (k + 1)..n)
    BY <1>4, <2>1
  <2>3. \A a, b \in Nat : b <= a + b
    OBVIOUS
  <2> QED  BY <1>2, <2>1, <2>2, <2>3
<1>7. \A k \in 1..(n + 1) :
        TailAt(p, k, n + 1) = p * TailAt(p, k - 1, n) + (Unit - p) * TailAt(p, k, n)
  BY <1>2, <1>5 DEF q
<1> QED  BY <1>1, <1>2, <1>4, <1>5, <1>6, <1>7

(* Nothing is as likely with one trial as one success.                     *)
LEMMA NoTrial ==
  ASSUME NEW p \in 0..Unit
  PROVE  TailAt(p, 0, 0) = 1 /\ TailAt(p, 1, 0) = 0
<1> DEFINE w == Chances(p, 0)
<1>1. p \in Nat /\ Unit - p \in Nat
  BY CalibrationAssumption
<1>2. \A x \in 0..0 : w[x] \in Nat
  BY ChancesOfOneMore
<1>3. w[0] = choose(0, 0) * (Power(p, 0) * Power(Unit - p, 0 - 0))
  BY DEF Chances
<1>4. choose(0, 0) = 1 /\ Power(p, 0) = 1 /\ Power(Unit - p, 0 - 0) = 1
  BY <1>1, ChoiceTriangle, Powers
<1>5. w[0] = 1
  BY <1>3, <1>4
<1>6. \A k : TailAt(p, k, 0) = SumOf(w, k..0)
  BY DEF TailAt, SumOf
<1> HIDE DEF w
<1>7. SumOf(w, 0..0) = w[0] + SumOf(w, (0 + 1)..0) /\ SumOf(w, (0 + 1)..0) = 0
  <2>1. 0 \in Nat /\ 0 \in 0..0
    OBVIOUS
  <2> QED  BY <1>2, <2>1, SumFromFirst
<1>8. SumOf(w, 1..0) = 0 /\ SumOf(w, 0..0) = 1
  <2>1. 0 + 1 = 1
    OBVIOUS
  <2>2. SumOf(w, 1..0) = 0 /\ SumOf(w, 0..0) = 1 + 0
    BY <1>5, <1>7, <2>1
  <2> QED  BY <2>2
<1>9. TailAt(p, 0, 0) = SumOf(w, 0..0) /\ TailAt(p, 1, 0) = SumOf(w, 1..0)
  BY <1>6
<1> QED  BY <1>8, <1>9

(* A likelier success makes k of them likelier.                            *)
LEMMA Weighed ==
  ASSUME NEW p \in Nat, NEW r \in Nat, NEW u \in Nat, p <= r, r <= u,
         NEW a \in Nat, NEW b \in Nat, NEW c \in Nat, NEW d \in Nat,
         b <= a, a <= c, b <= d
  PROVE  p * a + (u - p) * b <= r * c + (u - r) * d
<1> DEFINE s == r - p
           e == u - r
           i == a - b
           j == c - a
           k == d - b
<1>1. s \in Nat /\ e \in Nat /\ i \in Nat /\ j \in Nat /\ k \in Nat
  OBVIOUS
<1>2. r = p + s /\ u - p = s + e /\ a = b + i /\ c = (b + i) + j /\ d = b + k
  OBVIOUS
<1>3. u - r = e
  OBVIOUS
<1> HIDE DEF s, e, i, j, k
<1>4. (p + s) * ((b + i) + j) + e * (b + k)
        = (p * (b + i) + (s + e) * b) + (s * i + (p + s) * j + e * k)
  BY <1>1
<1>5. s * i + (p + s) * j + e * k \in Nat /\ p * (b + i) + (s + e) * b \in Nat
  BY <1>1
<1>6. \A x, y \in Nat : x <= x + y
  OBVIOUS
<1> QED  BY <1>2, <1>3, <1>4, <1>5, <1>6

LEMMA TailsGrow ==
  ASSUME NEW p \in 0..Unit, NEW r \in 0..Unit, p <= r
  PROVE  \A n \in Nat : \A k \in 0..(n + 1) : TailAt(p, k, n) <= TailAt(r, k, n)
<1> DEFINE G == {n \in Nat : \A k \in 0..(n + 1) : TailAt(p, k, n) <= TailAt(r, k, n)}
<1>0. Unit \in Nat /\ p \in Nat /\ r \in Nat /\ r <= Unit
  BY CalibrationAssumption
<1>1. 0 \in G
  <2>1. \A k \in 0..(0 + 1) : k = 0 \/ k = 1
    OBVIOUS
  <2> QED  BY <2>1, NoTrial
<1>2. ASSUME NEW n \in Nat, n \in G PROVE n + 1 \in G
  <2> SUFFICES ASSUME NEW k \in 0..((n + 1) + 1) PROVE TailAt(p, k, n + 1) <= TailAt(r, k, n + 1)
    OBVIOUS
  <2>1. \A j \in 0..(n + 1) : TailAt(p, j, n) <= TailAt(r, j, n)
    BY <1>2
  <2>2. CASE k = 0
    <3>1. TailAt(p, 0, n) \in Nat /\ TailAt(r, 0, n) \in Nat /\ TailAt(p, 0, n) <= TailAt(r, 0, n)
      BY <2>1, Tails
    <3>2. TailAt(p, 0, n + 1) = Unit * TailAt(p, 0, n) /\ TailAt(r, 0, n + 1) = Unit * TailAt(r, 0, n)
      BY Tails
    <3>3. \A a, b, c \in Nat : a <= b => c * a <= c * b
      OBVIOUS
    <3> QED  BY <1>0, <2>2, <3>1, <3>2, <3>3
  <2>3. CASE k = (n + 1) + 1
    <3>1. n + 1 \in Nat
      OBVIOUS
    <3>2. TailAt(p, (n + 1) + 1, n + 1) = 0 /\ TailAt(r, (n + 1) + 1, n + 1) = 0
      BY <3>1, Tails
    <3> QED  BY <2>3, <3>2
  <2>4. CASE k \in 1..(n + 1)
    <3> DEFINE a == TailAt(p, k - 1, n)
               b == TailAt(p, k, n)
               c == TailAt(r, k - 1, n)
               d == TailAt(r, k, n)
    <3>1. k - 1 \in 0..n /\ k - 1 \in 0..(n + 1) /\ k \in 0..(n + 1) /\ (k - 1) + 1 = k
      BY <2>4
    <3>2. a \in Nat /\ b \in Nat /\ c \in Nat /\ d \in Nat
      BY <3>1, Tails
    <3>3. b <= a
      <4>1. TailAt(p, (k - 1) + 1, n) <= TailAt(p, k - 1, n)
        BY <3>1, Tails
      <4> QED  BY <3>1, <4>1
    <3>4. a <= c /\ b <= d
      BY <2>1, <3>1
    <3>5. TailAt(p, k, n + 1) = p * a + (Unit - p) * b
          /\ TailAt(r, k, n + 1) = r * c + (Unit - r) * d
      BY <2>4, Tails
    <3> HIDE DEF a, b, c, d
    <3>6. p * a + (Unit - p) * b <= r * c + (Unit - r) * d
      BY <1>0, <3>2, <3>3, <3>4, Weighed
    <3> QED  BY <3>5, <3>6
  <2> QED  BY <2>2, <2>3, <2>4
<1>3. Nat \subseteq G
  <2> HIDE DEF G
  <2> QED  BY <1>1, <1>2, AllNaturals
<1> QED  BY <1>3

(* A success more keeps the bound; so does one more trial that succeeds.   *)
LEMMA BoundRises ==
  ASSUME NEW r \in 0..Unit, NEW n \in Nat, NEW k \in 0..n, LowerReaches(k, n, r)
  PROVE  LowerReaches(k + 1, n, r) /\ LowerReaches(k + 1, n + 1, r)
<1> DEFINE t == TailAt(r, k, n)
           u == TailAt(r, k + 1, n)
           v == TailAt(r, k + 1, n + 1)
           P == Power(Unit, n)
           Q == Power(Unit, n + 1)
<1>1. StationaryBlocks /\ n > 0 /\ k > 0 /\ t * Unit <= Alpha * P
  BY DEF LowerReaches
<1>2. Unit \in Nat /\ Alpha \in Nat /\ r \in Nat /\ Unit - r \in Nat /\ n \in Nat
  BY CalibrationAssumption
<1>3. P \in Nat /\ Q = Unit * P
  BY <1>2, Powers
<1>4. t \in Nat /\ u \in Nat /\ u <= t /\ v = r * t + (Unit - r) * u
  <2>1. k \in 0..(n + 1) /\ k + 1 \in 0..(n + 1) /\ k + 1 \in 1..(n + 1) /\ (k + 1) - 1 = k
    OBVIOUS
  <2>2. t \in Nat /\ u \in Nat /\ u <= t
    BY <2>1, Tails
  <2>3. v = r * TailAt(r, (k + 1) - 1, n) + (Unit - r) * u
    BY <2>1, Tails
  <2> QED  BY <2>1, <2>2, <2>3
<1> HIDE DEF t, u, v, P, Q
<1>5. u * Unit <= Alpha * P
  <2>1. \A a, b, c \in Nat : a <= b => a * c <= b * c
    OBVIOUS
  <2>2. u * Unit <= t * Unit /\ u * Unit \in Nat /\ t * Unit \in Nat
    BY <1>2, <1>4, <2>1
  <2> DEFINE x == u * Unit
             y == t * Unit
             z == Alpha * P
  <2>3. z \in Nat
    BY <1>2, <1>3
  <2>4. x <= y /\ y <= z /\ x \in Nat /\ y \in Nat
    BY <1>1, <2>2
  <2>5. x <= z
    <3> HIDE DEF x, y, z
    <3> QED  BY <2>3, <2>4
  <2> QED  BY <2>5
<1>6. v * Unit <= Alpha * Q
  <2> DEFINE e == Unit - r
  <2>1. e \in Nat /\ Unit = r + e
    BY <1>2
  <2>2. v = r * t + e * u
    BY <1>4
  <2> HIDE DEF e
  <2>3. r * t + e * u <= (r + e) * t
    <3>1. \A a, b, c, d \in Nat : d <= b => a * b + c * d <= (a + c) * b
      <4> SUFFICES ASSUME NEW a \in Nat, NEW b \in Nat, NEW c \in Nat, NEW d \in Nat, d <= b
                   PROVE  a * b + c * d <= (a + c) * b
        OBVIOUS
      <4> DEFINE j == b - d
      <4>1. j \in Nat /\ b = d + j
        OBVIOUS
      <4> HIDE DEF j
      <4>2. (a + c) * b = (a * b + c * d) + c * j /\ c * j \in Nat /\ a * b + c * d \in Nat
        BY <4>1
      <4> QED  BY <4>2
    <3> QED  BY <1>2, <1>4, <2>1, <3>1
  <2>4. v <= Unit * t /\ v \in Nat /\ Unit * t \in Nat
    <3>1. v \in Nat
      <4>1. \A a, b, c, d \in Nat : a * b + c * d \in Nat
        OBVIOUS
      <4> QED  BY <1>2, <1>4, <2>1, <2>2, <4>1
    <3>2. v <= Unit * t
      BY <2>1, <2>2, <2>3
    <3>3. Unit * t \in Nat
      BY <1>2, <1>4
    <3> QED  BY <3>1, <3>2, <3>3
  <2>5. v * Unit <= (Unit * t) * Unit /\ (Unit * t) * Unit = Unit * (t * Unit)
    <3>1. \A a, b, c \in Nat : a <= b => a * c <= b * c
      OBVIOUS
    <3>2. \A a, b \in Nat : (a * b) * a = a * (b * a)
      OBVIOUS
    <3> QED  BY <1>2, <1>4, <2>4, <3>1, <3>2
  <2>6. Unit * (t * Unit) <= Unit * (Alpha * P) /\ Unit * (Alpha * P) = Alpha * (Unit * P)
    <3>1. \A a, b, c \in Nat : a <= b => c * a <= c * b
      OBVIOUS
    <3>2. \A a, b, c \in Nat : a * (b * c) = b * (a * c)
      OBVIOUS
    <3>3. t * Unit \in Nat /\ Alpha * P \in Nat
      BY <1>2, <1>3, <1>4
    <3> QED  BY <1>1, <1>2, <1>3, <3>1, <3>2, <3>3
  <2>7. v * Unit <= Alpha * (Unit * P)
    <3> DEFINE w == v * Unit
               x == (Unit * t) * Unit
               y == Unit * (t * Unit)
               z == Alpha * (Unit * P)
    <3>1. w \in Nat /\ x \in Nat /\ z \in Nat
      BY <1>2, <1>3, <2>4
    <3>2. w <= x /\ x = y /\ y <= z
      <4>1. y <= z
        BY <2>6
      <4> QED  BY <2>5, <4>1
    <3> HIDE DEF w, x, y, z
    <3>3. w <= z
      BY <3>1, <3>2
    <3> QED  BY <3>3 DEF w, z
  <2> QED  BY <1>3, <2>7
<1>7. n + 1 > 0 /\ k + 1 > 0
  BY <1>1
<1> QED  BY <1>1, <1>5, <1>6, <1>7 DEF LowerReaches, t, u, v, P, Q

(* The numbers of successes that admit are all those from one on.          *)
LEMMA AdmittingUpwards ==
  ASSUME NEW r \in 0..Unit, NEW n \in Nat, Admitting(n, r) # {}
  PROVE  \E m \in 0..n : LowerReaches(m, n, r) /\ Admitting(n, r) = m..n
<1> DEFINE A == Admitting(n, r)
<1>1. A \subseteq Nat /\ \A k : k \in A <=> k \in 0..n /\ LowerReaches(k, n, r)
  BY DEF Admitting
<1> HIDE DEF A
<1>2. PICK m \in A : \A k \in A : ~(k < m)
  <2>1. A # {}
    BY DEF A
  <2> QED  BY <1>1, <2>1, LeastNatural
<1>3. m \in 0..n /\ LowerReaches(m, n, r)
  BY <1>1, <1>2
<1> DEFINE G == {d \in Nat : m + d <= n => m + d \in A}
<1>4. 0 \in G
  BY <1>2, <1>3
<1>5. ASSUME NEW d \in Nat, d \in G PROVE d + 1 \in G
  <2> SUFFICES ASSUME m + (d + 1) <= n PROVE m + (d + 1) \in A
    OBVIOUS
  <2>1. m + d \in A /\ m + (d + 1) = (m + d) + 1 /\ m + (d + 1) \in 0..n
    BY <1>3, <1>5
  <2>2. m + d \in 0..n /\ LowerReaches(m + d, n, r)
    BY <1>1, <2>1
  <2>3. LowerReaches((m + d) + 1, n, r)
    BY <2>2, BoundRises
  <2> QED  BY <1>1, <2>1, <2>3
<1>6. Nat \subseteq G
  <2> HIDE DEF G
  <2> QED  BY <1>4, <1>5, AllNaturals
<1>7. \A k \in m..n : k \in A
  <2> SUFFICES ASSUME NEW k \in m..n PROVE k \in A
    OBVIOUS
  <2>1. k - m \in Nat /\ m + (k - m) = k /\ k <= n
    BY <1>3
  <2> QED  BY <1>6, <2>1
<1>8. \A k \in A : k \in m..n
  BY <1>1, <1>2, <1>3
<1>9. A = m..n
  BY <1>7, <1>8
<1> QED  BY <1>3, <1>9 DEF A

LEMMA RareAdmission == AdmissionIsRare
<1> SUFFICES ASSUME NEW n \in 1..MostTrials,
                    NEW r \in {MinimumCorrectness, MinimumAvailability}, NEW p \in 0..(r - 1)
             PROVE  SumOf(Chances(p, n), Admitting(n, r)) * Unit <= Alpha * Power(Unit, n)
  BY DEF AdmissionIsRare, SumOf
<1>1. n \in Nat /\ r \in 0..Unit /\ p \in 0..Unit /\ p <= r /\ Unit \in Nat /\ Alpha \in Nat
  BY CalibrationAssumption
<1>2. Power(Unit, n) \in Nat
  BY <1>1, Powers
<1>3. CASE Admitting(n, r) = {}
  <2>1. SumOf(Chances(p, n), Admitting(n, r)) = 0
    BY <1>3, SumOfNone
  <2>2. 0 * Unit = 0 /\ Alpha * Power(Unit, n) \in Nat
    BY <1>1, <1>2
  <2>3. 0 <= Alpha * Power(Unit, n)
    BY <2>2
  <2> QED  BY <2>1, <2>2, <2>3
<1>4. CASE Admitting(n, r) # {}
  <2>1. PICK m \in 0..n : LowerReaches(m, n, r) /\ Admitting(n, r) = m..n
    BY <1>1, <1>4, AdmittingUpwards
  <2> DEFINE t == TailAt(p, m, n)
             u == TailAt(r, m, n)
             L == Alpha * Power(Unit, n)
  <2>2. SumOf(Chances(p, n), Admitting(n, r)) = t
    BY <2>1 DEF TailAt, SumOf
  <2>3. m \in 0..(n + 1)
    BY <1>1
  <2>4. t \in Nat /\ u \in Nat
    BY <1>1, <2>3, Tails
  <2>5. t <= u
    BY <1>1, <2>3, TailsGrow
  <2>6. u * Unit <= L
    BY <2>1 DEF LowerReaches
  <2>7. L \in Nat
    BY <1>1, <1>2
  <2> HIDE DEF t, u, L
  <2>8. \A a, b, c \in Nat : a <= b => a * c <= b * c
    OBVIOUS
  <2>9. t * Unit <= u * Unit /\ t * Unit \in Nat /\ u * Unit \in Nat
    BY <1>1, <2>4, <2>5, <2>8
  <2>10. t * Unit <= L
    <3>1. \A a, b, c \in Nat : a <= b /\ b <= c => a <= c
      OBVIOUS
    <3> QED  BY <2>6, <2>7, <2>9, <3>1
  <2> QED  BY <2>2, <2>10 DEF L
<1> QED  BY <1>3, <1>4

(* What is observed is an answer, and an audited one of an admitted report.*)
ObservedOK ==
  \A a \in DOMAIN observations :
    /\ observations[a].admitted \in BOOLEAN
    /\ observations[a].answer \in Answers
    /\ observations[a].answer # "unaudited" => observations[a].admitted
EarnedInv == FundedInv /\ ObservedOK

LEMMA ObservedKept ==
  ASSUME EarnedInv, [LedgerNext]_ledger
  PROVE  ObservedOK'
<1>1. CASE UNCHANGED observations
  BY <1>1 DEF EarnedInv, ObservedOK
<1>2. ASSUME NEW a \in CalibrationAssignments, NEW settlement \in CalibrationSettlements,
             NEW timely \in BOOLEAN, NEW answer \in Answers, NEW ownerCost \in OwnerCosts,
             Record(a, settlement, timely, answer, ownerCost)
      PROVE  ObservedOK'
  <2> DEFINE seen == Observation(settlement, timely, answer, ownerCost)
  <2>1. /\ answer # "unaudited" => Admits(settlement)
        /\ observations' = Extend(observations, a, seen)
    BY <1>2 DEF Record, MayRecord
  <2>2. PICK b \in BOOLEAN : b = Admits(settlement)
    BY DEF Admits
  <2>3. seen.admitted = b /\ seen.answer = answer
    BY <2>2 DEF Observation
  <2> HIDE DEF seen
  <2>4. /\ DOMAIN observations' = DOMAIN observations \cup {a}
        /\ observations'[a] = seen
        /\ \A x \in DOMAIN observations \ {a} : observations'[x] = observations[x]
    BY <2>1 DEF Extend
  <2>5. /\ seen.admitted \in BOOLEAN
        /\ seen.answer \in Answers
        /\ seen.answer # "unaudited" => seen.admitted
    BY <2>1, <2>2, <2>3
  <2> QED  BY <2>4, <2>5 DEF EarnedInv, ObservedOK
<1>3. ASSUME NEW a \in CalibrationAssignments, NEW block \in Blocks, Reserve(a, block)
      PROVE  ObservedOK'
  <2>1. UNCHANGED observations
    BY <1>3 DEF Reserve
  <2> QED  BY <1>1, <2>1
<1> QED  BY <1>1, <1>2, <1>3 DEF LedgerNext, ledger

(* A set that differs from another in one element only.                    *)
LEMMA OneElement ==
  ASSUME NEW P, IsFiniteSet(P), NEW a, NEW Q, Q \ {a} = P \ {a}
  PROVE  /\ IsFiniteSet(Q) /\ Cardinality(P) \in Nat
         /\ (a \in P <=> a \in Q) => Cardinality(Q) = Cardinality(P)
         /\ (a \in Q /\ a \notin P) => Cardinality(Q) = Cardinality(P) + 1
<1>1. IsFiniteSet(P \cup {a}) /\ Q \subseteq P \cup {a} /\ Cardinality(P) \in Nat
  BY FS_AddElement, FS_CardinalityType
<1>2. IsFiniteSet(Q)
  BY <1>1, FS_Subset
<1>3. ASSUME a \in P <=> a \in Q PROVE Cardinality(Q) = Cardinality(P)
  <2>1. Q = P
    BY <1>3
  <2> QED  BY <2>1
<1>4. ASSUME a \in Q, a \notin P PROVE Cardinality(Q) = Cardinality(P) + 1
  <2>1. Q = P \cup {a}
    BY <1>4
  <2> QED  BY <1>4, <2>1, FS_AddElement
<1> QED  BY <1>1, <1>2, <1>3, <1>4

TimelySet(o) == {x \in DOMAIN o : o[x].timely}
AuditedSet(o) == {x \in DOMAIN o : o[x].admitted /\ o[x].answer # "unaudited"}
CorrectSet(o) == {x \in DOMAIN o : o[x].admitted /\ o[x].answer = "correct"}

(* A better observation admits whom the one at hand admits.                *)
LEMMA BetterAdmits ==
  ASSUME EarnedInv, ProductionAdmissible(observations), NEW a \in DOMAIN observations,
         NEW r \in Observable, AsGood(r, observations[a])
  PROVE  ProductionAdmissible([observations EXCEPT ![a] = r])
<1> DEFINE o == observations
           u == [observations EXCEPT ![a] = r]
           s == observations[a]
           n == Cardinality(DOMAIN o)
<1>1. DOMAIN u = DOMAIN o /\ u[a] = r /\ \A x \in DOMAIN o \ {a} : u[x] = o[x]
  OBVIOUS
<1>2. r.admitted /\ r.answer \in Answers
  <2>1. PICK t \in CalibrationSettlements, timely \in BOOLEAN, answer \in Answers :
          Admits(t) /\ r = Observation(t, timely, answer, 0)
    BY DEF Observable
  <2> QED  BY <2>1 DEF Observation
<1>3. /\ r.answer # "unaudited"
      /\ s.timely => r.timely
      /\ s.answer = "correct" => r.answer = "correct"
      /\ ~s.admitted => r.answer = "correct"
  BY <1>2 DEF AsGood
<1>4. /\ s.admitted \in BOOLEAN
      /\ s.answer # "unaudited" => s.admitted
      /\ s.admitted => s.answer # "unaudited"
  BY DEF EarnedInv, ObservedOK, ProductionAdmissible, AllAdmittedAudited
<1>5. /\ IsFiniteSet(DOMAIN o) /\ n \in Nat /\ n = Opportunities
      /\ AllAdmittedAudited(o)
      /\ LowerReaches(CorrectAudited(o), Audited(o), MinimumCorrectness)
      /\ LowerReaches(TimelyAdmitted(o), n, MinimumAvailability)
  <2>1. IsFiniteSet(DOMAIN o)
    BY FS_Subset DEF EarnedInv, FundedInv, CalibrationFunded
  <2> QED  BY <2>1, FS_CardinalityType DEF ProductionAdmissible
<1> HIDE DEF o, u, s, n
<1>6. /\ TimelyAdmitted(o) = Cardinality(TimelySet(o)) /\ TimelyAdmitted(u) = Cardinality(TimelySet(u))
      /\ Audited(o) = Cardinality(AuditedSet(o)) /\ Audited(u) = Cardinality(AuditedSet(u))
      /\ CorrectAudited(o) = Cardinality(CorrectSet(o))
      /\ CorrectAudited(u) = Cardinality(CorrectSet(u))
  BY DEF TimelyAdmitted, Audited, CorrectAudited, TimelySet, AuditedSet, CorrectSet
<1>7. /\ IsFiniteSet(TimelySet(o)) /\ IsFiniteSet(AuditedSet(o)) /\ IsFiniteSet(CorrectSet(o))
      /\ TimelyAdmitted(o) \in 0..n /\ Audited(o) \in Nat /\ CorrectAudited(o) \in 0..Audited(o)
  <2>1. /\ TimelySet(o) \subseteq DOMAIN o /\ AuditedSet(o) \subseteq DOMAIN o
        /\ CorrectSet(o) \subseteq AuditedSet(o)
    BY DEF TimelySet, AuditedSet, CorrectSet
  <2>2. /\ IsFiniteSet(TimelySet(o)) /\ Cardinality(TimelySet(o)) <= Cardinality(DOMAIN o)
        /\ IsFiniteSet(AuditedSet(o))
    BY <1>5, <2>1, FS_Subset
  <2>3. IsFiniteSet(CorrectSet(o)) /\ Cardinality(CorrectSet(o)) <= Cardinality(AuditedSet(o))
    BY <2>1, <2>2, FS_Subset
  <2>4. /\ Cardinality(TimelySet(o)) \in Nat /\ Cardinality(AuditedSet(o)) \in Nat
        /\ Cardinality(CorrectSet(o)) \in Nat
    BY <2>2, <2>3, FS_CardinalityType
  <2> QED  BY <1>5, <1>6, <2>2, <2>3, <2>4 DEF n
<1>8. /\ TimelySet(u) \ {a} = TimelySet(o) \ {a}
      /\ AuditedSet(u) \ {a} = AuditedSet(o) \ {a}
      /\ CorrectSet(u) \ {a} = CorrectSet(o) \ {a}
  BY <1>1 DEF TimelySet, AuditedSet, CorrectSet
<1>9. a \in DOMAIN o /\ o[a] = s
  BY DEF o, s
<1>10. LowerReaches(TimelyAdmitted(u), n, MinimumAvailability)
  <2>1. \/ TimelyAdmitted(u) = TimelyAdmitted(o)
        \/ TimelyAdmitted(u) = TimelyAdmitted(o) + 1
    <3>1. CASE a \in TimelySet(o)
      <4>1. a \in TimelySet(u)
        BY <1>1, <1>3, <1>9, <3>1 DEF TimelySet
      <4> QED  BY <1>6, <1>7, <1>8, <3>1, <4>1, OneElement
    <3>2. CASE a \notin TimelySet(o)
      <4>1. CASE a \in TimelySet(u)
        BY <1>6, <1>7, <1>8, <3>2, <4>1, OneElement
      <4>2. CASE a \notin TimelySet(u)
        BY <1>6, <1>7, <1>8, <3>2, <4>2, OneElement
      <4> QED  BY <4>1, <4>2
    <3> QED  BY <3>1, <3>2
  <2>2. LowerReaches(TimelyAdmitted(o) + 1, n, MinimumAvailability)
    BY <1>5, <1>7, BoundRises, CalibrationAssumption
  <2> QED  BY <1>5, <2>1, <2>2
<1>11. a \in AuditedSet(u) /\ (r.answer = "correct" <=> a \in CorrectSet(u))
  BY <1>1, <1>2, <1>3, <1>9 DEF AuditedSet, CorrectSet
<1>12. LowerReaches(CorrectAudited(u), Audited(u), MinimumCorrectness) /\ Audited(u) > 0
  <2>0. /\ LowerReaches(CorrectAudited(o) + 1, Audited(o), MinimumCorrectness)
        /\ LowerReaches(CorrectAudited(o) + 1, Audited(o) + 1, MinimumCorrectness)
    BY <1>5, <1>7, BoundRises, CalibrationAssumption
  <2>1. CASE s.admitted
    <3>1. a \in AuditedSet(o)
      BY <1>4, <1>9, <2>1 DEF AuditedSet
    <3>2. Audited(u) = Audited(o)
      BY <1>6, <1>7, <1>8, <1>11, <3>1, OneElement
    <3>3. \/ CorrectAudited(u) = CorrectAudited(o)
          \/ CorrectAudited(u) = CorrectAudited(o) + 1
      <4>1. CASE a \in CorrectSet(o)
        <5>1. a \in CorrectSet(u)
          BY <1>3, <1>9, <1>11, <4>1 DEF CorrectSet
        <5> QED  BY <1>6, <1>7, <1>8, <4>1, <5>1, OneElement
      <4>2. CASE a \notin CorrectSet(o)
        <5>1. CASE a \in CorrectSet(u)
          BY <1>6, <1>7, <1>8, <4>2, <5>1, OneElement
        <5>2. CASE a \notin CorrectSet(u)
          BY <1>6, <1>7, <1>8, <4>2, <5>2, OneElement
        <5> QED  BY <5>1, <5>2
      <4> QED  BY <4>1, <4>2
    <3>4. LowerReaches(CorrectAudited(u), Audited(u), MinimumCorrectness)
      BY <1>5, <2>0, <3>2, <3>3
    <3> QED  BY <3>4 DEF LowerReaches
  <2>2. CASE ~s.admitted
    <3>1. a \notin AuditedSet(o) /\ a \notin CorrectSet(o)
      BY <1>9, <2>2 DEF AuditedSet, CorrectSet
    <3>2. a \in CorrectSet(u)
      BY <1>3, <1>11, <2>2
    <3>3. Audited(u) = Audited(o) + 1 /\ CorrectAudited(u) = CorrectAudited(o) + 1
      BY <1>6, <1>7, <1>8, <1>11, <3>1, <3>2, OneElement
    <3>4. LowerReaches(CorrectAudited(u), Audited(u), MinimumCorrectness)
      BY <2>0, <3>3
    <3> QED  BY <3>4 DEF LowerReaches
  <2> QED  BY <1>4, <2>1, <2>2
<1>13. AllAdmittedAudited(u)
  <2>1. \A x \in DOMAIN o \ {a} : u[x].admitted => u[x].answer # "unaudited"
    BY <1>1, <1>5 DEF AllAdmittedAudited
  <2>2. u[a].admitted => u[a].answer # "unaudited"
    BY <1>1, <1>3
  <2> QED  BY <1>1, <2>1, <2>2 DEF AllAdmittedAudited
<1>14. Cardinality(DOMAIN u) = n /\ n = Opportunities
  BY <1>1, <1>5 DEF n
<1> QED  BY <1>10, <1>12, <1>13, <1>14 DEF ProductionAdmissible, u

LEMMA Earned ==
  ASSUME EarnedInv
  PROVE  AdmissionEarned
<1> SUFFICES ASSUME ProductionAdmissible(observations)
             PROVE  /\ DOMAIN observations = DOMAIN reservations
                    /\ \A a \in DOMAIN observations :
                         observations[a].admitted <=> observations[a].answer \in {"correct", "wrong"}
                    /\ \A a \in DOMAIN observations : \A r \in Observable :
                         AsGood(r, observations[a])
                           => ProductionAdmissible([observations EXCEPT ![a] = r])
  BY RareAdmission DEF AdmissionEarned
<1>1. DOMAIN observations = DOMAIN reservations
  <2>1. /\ IsFiniteSet(DOMAIN reservations) /\ DOMAIN observations \subseteq DOMAIN reservations
        /\ Cardinality(DOMAIN observations) = Cardinality(DOMAIN reservations)
    BY DEF EarnedInv, FundedInv, CalibrationFunded, ProductionAdmissible, Opportunities
  <2> QED  BY <2>1, FS_Subset
<1>2. ASSUME NEW a \in DOMAIN observations
      PROVE  observations[a].admitted <=> observations[a].answer \in {"correct", "wrong"}
  <2>1. /\ observations[a].answer \in Answers
        /\ observations[a].answer # "unaudited" => observations[a].admitted
        /\ observations[a].admitted => observations[a].answer # "unaudited"
    BY DEF EarnedInv, ObservedOK, ProductionAdmissible, AllAdmittedAudited
  <2> QED  BY <2>1 DEF Answers
<1> QED  BY <1>1, <1>2, BetterAdmits

(* Admission to production is earned, whatever the prices, the budget, the *)
(* required levels and the error probability: it takes every reserved      *)
(* opportunity completed and every admitted report audited, never turns    *)
(* against a verifier that had done better on one of them, and a verifier  *)
(* below the required level is admitted with probability at most alpha     *)
(* (PaidCalibrationLedger.summary).                                        *)
THEOREM AdmissionEarnedAlways == LedgerSpec => []AdmissionEarned
<1>1. LedgerInit => EarnedInv
  BY FundedFirst DEF LedgerInit, EarnedInv, ObservedOK
<1>2. EarnedInv /\ [LedgerNext]_ledger => EarnedInv'
  BY FundedKept, ObservedKept DEF EarnedInv
<1>3. EarnedInv => AdmissionEarned
  BY Earned
<1> QED  BY <1>1, <1>2, <1>3, PTL DEF LedgerSpec

-------------------------------------------------------------------------------
(* The native exchange                                                     *)

AllParties == Verifiers \cup {"trainer"}

(* What an exchange is about.  A tolerance has been agreed on once the     *)
(* estimators are done, and it is positive.                                *)
GroupTerms ==
  /\ submission \in [t: Diverging, v: Diverging] /\ hash \in [Intervals -> Hashes]
  /\ measured \in [Estimators -> Nat]
  /\ round \in {"estimate", "report", "distance", "stopped"}
  /\ agreed \in Nat /\ (round # "estimate" /\ ~exchangeClosed => agreed > 0)
  /\ exchangeClosed \in BOOLEAN /\ (exchangeClosed => round = "stopped")

(* A commitment names a party that has committed; one that names the party *)
(* that made it is to that party's own report.                             *)
SealedOwn ==
  /\ DOMAIN committed \subseteq Parties
  /\ \A p \in DOMAIN committed :
       /\ committed[p].by \in DOMAIN committed
       /\ committed[p].by = p => committed[p].to = OwnReport(p)
DisclosedOwn ==
  /\ DOMAIN revealed \subseteq Parties
  /\ \A p \in DOMAIN revealed : revealed[p] = OwnReport(p)

(* The distances are compared only if somebody's report differs.           *)
Dissent == round = "distance" => ~DigestsAgree

GroupInv ==
  /\ GroupTerms /\ Dissent /\ ReplayDecides
  /\ round # "stopped" => SealedOwn /\ DisclosedOwn

LEMMA OwnKept ==
  ASSUME submission' = submission, hash' = hash, measured' = measured, round' = round,
         agreed' = agreed
  PROVE  Parties' = Parties /\ \A p : OwnReport(p)' = OwnReport(p)
BY DEF Parties, OwnReport, State, Digest

LEMMA TermsKept ==
  ASSUME submission' = submission, hash' = hash, measured' = measured, round' = round,
         agreed' = agreed, exchangeClosed' = exchangeClosed, GroupInv
  PROVE  GroupTerms' /\ Dissent'
BY DEF GroupInv, GroupTerms, Dissent, DigestsAgree, SameDigests, Digest

(* Committing: who has not committed is named by nobody, and a copied      *)
(* commitment names somebody else.                                         *)
LEMMA CommitHolds ==
  ASSUME GroupInv, NEW p \in Parties, Commit(p)
  PROVE  GroupInv'
<1>1. /\ submission' = submission /\ hash' = hash /\ measured' = measured
      /\ round' = round /\ agreed' = agreed /\ exchangeClosed' = exchangeClosed /\ verdict' = verdict
      /\ revealed' = revealed
      /\ p \notin DOMAIN committed /\ DOMAIN revealed = {}
  BY DEF Commit, MayCommit
<1>2. round # "stopped"
  BY DEF Parties
<1>3. Seen = {}
  BY <1>1 DEF Seen
<1>4. PICK seal \in {[by |-> p, to |-> OwnReport(p)]} \cup {committed[q] : q \in DOMAIN committed} :
        committed' = Bind(committed, p, seal)
  BY <1>3 DEF Commit
<1>5. /\ DOMAIN committed' = DOMAIN committed \cup {p} /\ committed'[p] = seal
      /\ \A q \in DOMAIN committed : committed'[q] = committed[q]
  BY <1>1, <1>4 DEF Bind
<1>6. \/ seal.by = p /\ seal.to = OwnReport(p)
      \/ seal.by \in DOMAIN committed
  BY <1>2, <1>4 DEF GroupInv, SealedOwn
<1>7. /\ Parties' = Parties /\ \A q : OwnReport(q)' = OwnReport(q)
      /\ GroupTerms' /\ Dissent'
  BY <1>1, OwnKept, TermsKept
<1>8. SealedOwn'
  BY <1>1, <1>2, <1>5, <1>6, <1>7 DEF GroupInv, SealedOwn
<1>9. DisclosedOwn'
  BY <1>1, <1>7 DEF DisclosedOwn
<1>10. ReplayDecides'
  BY <1>1, <1>2 DEF ReplayDecides
<1> QED  BY <1>7, <1>8, <1>9, <1>10 DEF GroupInv

(* Disclosing: the seal names the party, so it is to its own report.       *)
LEMMA RevealHolds ==
  ASSUME GroupInv, NEW p \in Parties, Reveal(p)
  PROVE  GroupInv'
<1>1. /\ submission' = submission /\ hash' = hash /\ measured' = measured
      /\ round' = round /\ agreed' = agreed /\ exchangeClosed' = exchangeClosed /\ verdict' = verdict
      /\ committed' = committed
  BY DEF Reveal
<1>2. round # "stopped"
  BY DEF Parties
<1>3. PICK report : MayReveal(p, report) /\ revealed' = Bind(revealed, p, report)
  BY DEF Reveal
<1>4. report = OwnReport(p)
  BY <1>2, <1>3 DEF MayReveal, GroupInv, SealedOwn
<1>5. /\ DOMAIN revealed' = DOMAIN revealed \cup {p} /\ revealed'[p] = report
      /\ \A q \in DOMAIN revealed : q # p => revealed'[q] = revealed[q]
  BY <1>3 DEF Bind
<1>6. /\ Parties' = Parties /\ \A q : OwnReport(q)' = OwnReport(q)
      /\ GroupTerms' /\ Dissent'
  BY <1>1, OwnKept, TermsKept
<1>7. SealedOwn'
  BY <1>1, <1>2, <1>6 DEF GroupInv, SealedOwn
<1>8. DisclosedOwn'
  BY <1>1, <1>2, <1>4, <1>5, <1>6 DEF GroupInv, DisclosedOwn
<1>9. ReplayDecides'
  BY <1>1, <1>2 DEF ReplayDecides
<1> QED  BY <1>6, <1>7, <1>8, <1>9 DEF GroupInv

LEMMA ExpireHolds == ASSUME GroupInv, Expire PROVE GroupInv'
BY DEF GroupInv, Expire, GroupTerms, Dissent, ReplayDecides

(* Two and three members; at most one; and a majority of three.            *)
LEMMA ThreeMembers ==
  ASSUME NEW a, NEW b, NEW c, a # b, a # c, b # c
  PROVE  /\ IsFiniteSet({a, b, c}) /\ Cardinality({a, b, c}) = 3
         /\ IsFiniteSet({a, b}) /\ Cardinality({a, b}) = 2
<1>1. IsFiniteSet({a}) /\ Cardinality({a}) = 1
  BY FS_Singleton
<1>2. {a, b} = {a} \cup {b} /\ b \notin {a}
  OBVIOUS
<1>3. IsFiniteSet({a, b}) /\ Cardinality({a, b}) = 2
  BY <1>1, <1>2, FS_AddElement
<1>4. {a, b, c} = {a, b} \cup {c} /\ c \notin {a, b}
  OBVIOUS
<1> QED  BY <1>3, <1>4, FS_AddElement

LEMMA AtMostOne ==
  ASSUME NEW x, NEW S \in SUBSET {x}
  PROVE  Cardinality(S) \in Nat /\ 2 * Cardinality(S) <= 3
<1>1. S = {} \/ S = {x}
  <2>1. CASE x \in S
    <3>1. S = {x}
      BY <2>1
    <3> QED  BY <3>1
  <2>2. CASE x \notin S
    <3>1. S = {}
      BY <2>2
    <3> QED  BY <3>1
  <2> QED  BY <2>1, <2>2
<1>2. Cardinality({}) = 0 /\ Cardinality({x}) = 1
  BY FS_EmptySet, FS_Singleton
<1>3. Cardinality(S) = 0 \/ Cardinality(S) = 1
  BY <1>1, <1>2, Zenon
<1> QED  BY <1>3

LEMMA TwoOfThree ==
  ASSUME NEW S \in SUBSET Verifiers, "v1" \in S, "v2" \in S
  PROVE  2 * Cardinality(S) > Cardinality(Verifiers)
<1>1. /\ IsFiniteSet({"v1", "v2", "v0"}) /\ Cardinality({"v1", "v2", "v0"}) = 3
      /\ Cardinality({"v1", "v2"}) = 2
  <2> DEFINE a == "v1"
             b == "v2"
             c == "v0"
  <2>1. a # b /\ a # c /\ b # c
    OBVIOUS
  <2> HIDE DEF a, b, c
  <2>2. /\ IsFiniteSet({a, b, c}) /\ Cardinality({a, b, c}) = 3 /\ Cardinality({a, b}) = 2
    BY <2>1, ThreeMembers
  <2> QED  BY <2>2 DEF a, b, c
<1>2. Verifiers = {"v1", "v2", "v0"} /\ {"v1", "v2"} \subseteq S
  BY DEF Verifiers
<1>3. IsFiniteSet(S)
  BY <1>1, <1>2, FS_Subset
<1>4. Cardinality(S) \in Nat /\ Cardinality(S) >= 2
  BY <1>1, <1>2, <1>3, FS_Subset, FS_CardinalityType
<1> QED  BY <1>1, <1>2, <1>4

LEMMA MajorityReplays ==
  ASSUME NEW S \in SUBSET Verifiers, 2 * Cardinality(S) > Cardinality(Verifiers)
  PROVE  "v1" \in S \/ "v2" \in S
<1> SUFFICES ASSUME "v1" \notin S, "v2" \notin S PROVE FALSE
  OBVIOUS
<1>1. S \in SUBSET {"v0"}
  BY DEF Verifiers
<1>2. Cardinality(S) \in Nat /\ 2 * Cardinality(S) <= 3
  BY <1>1, AtMostOne
<1>3. Cardinality(Verifiers) = 3
  BY ThreeMembers DEF Verifiers
<1> QED  BY <1>2, <1>3

(* Among three measurements there is one in the middle.                    *)
LEMMA MedianIs ==
  ASSUME NEW values \in [Estimators -> Nat]
  PROVE  Median(values) \in Nat
<1> DEFINE Low(m) == {e \in DOMAIN values : values[e] < m}
           High(m) == {e \in DOMAIN values : values[e] > m}
<1>1. /\ DOMAIN values = {"e0", "e1", "e2"}
      /\ values["e0"] \in Nat /\ values["e1"] \in Nat /\ values["e2"] \in Nat
  BY DEF Estimators
<1>2. Cardinality(DOMAIN values) = 3
  <2>1. Cardinality(Estimators) = 3
    BY ThreeMembers DEF Estimators
  <2> QED  BY <2>1
<1>3. ASSUME NEW x, NEW y, NEW z, DOMAIN values = {x, y, z},
             values[x] <= values[y], values[y] <= values[z]
      PROVE  \E m \in {values[e] : e \in DOMAIN values} :
               2 * Cardinality(Low(m)) <= 3 /\ 2 * Cardinality(High(m)) <= 3
  <2>1. values[x] \in Nat /\ values[y] \in Nat /\ values[z] \in Nat
    BY <1>3
  <2>2. Low(values[y]) \in SUBSET {x} /\ High(values[y]) \in SUBSET {z}
    BY <1>3, <2>1
  <2> HIDE DEF Low, High
  <2>3. 2 * Cardinality(Low(values[y])) <= 3 /\ 2 * Cardinality(High(values[y])) <= 3
    BY <2>2, AtMostOne
  <2> QED  BY <1>3, <2>3
<1>4. \E m \in {values[e] : e \in DOMAIN values} :
        2 * Cardinality(Low(m)) <= 3 /\ 2 * Cardinality(High(m)) <= 3
  <2> HIDE DEF Low, High
  <2>1. CASE values["e0"] <= values["e1"] /\ values["e1"] <= values["e2"]
    BY <1>1, <1>3, <2>1
  <2>2. CASE values["e0"] <= values["e2"] /\ values["e2"] <= values["e1"]
    BY <1>1, <1>3, <2>2
  <2>3. CASE values["e1"] <= values["e0"] /\ values["e0"] <= values["e2"]
    BY <1>1, <1>3, <2>3
  <2>4. CASE values["e1"] <= values["e2"] /\ values["e2"] <= values["e0"]
    BY <1>1, <1>3, <2>4
  <2>5. CASE values["e2"] <= values["e0"] /\ values["e0"] <= values["e1"]
    BY <1>1, <1>3, <2>5
  <2>6. CASE values["e2"] <= values["e1"] /\ values["e1"] <= values["e0"]
    BY <1>1, <1>3, <2>6
  <2> QED  BY <1>1, <2>1, <2>2, <2>3, <2>4, <2>5, <2>6
<1>5. Median(values) \in {values[e] : e \in DOMAIN values}
  BY <1>2, <1>4 DEF Median
<1> QED  BY <1>5

(* The estimators agree on a tolerance of at least the floor.              *)
LEMMA EstimatedHolds == ASSUME GroupInv, Estimated PROVE GroupInv'
<1>1. /\ round = "estimate" /\ Exchanged /\ round' = "report"
      /\ agreed' = EpsilonFloor + EpsilonMultiplier * Median(revealed)
      /\ submission' = submission /\ hash' = hash /\ measured' = measured
      /\ exchangeClosed' = exchangeClosed /\ verdict' = verdict
      /\ committed' = Nobody /\ revealed' = Nobody
  BY DEF Estimated, NextExchange
<1>2. DOMAIN revealed = Estimators /\ \A e \in Estimators : revealed[e] = measured[e]
  BY <1>1 DEF Exchanged, Parties, GroupInv, DisclosedOwn, OwnReport
<1>3. Median(revealed) \in Nat
  <2> DEFINE values == [e \in Estimators |-> measured[e]]
  <2>1. values \in [Estimators -> Nat] /\ DOMAIN values = DOMAIN revealed
    BY <1>2 DEF GroupInv, GroupTerms
  <2>2. \A e \in DOMAIN revealed : revealed[e] = values[e]
    BY <1>2
  <2> HIDE DEF values
  <2>3. Median(revealed) = Median(values)
    BY <2>1, <2>2 DEF Median
  <2> QED  BY <2>1, <2>3, MedianIs
<1>4. agreed' \in Nat /\ agreed' > 0
  <2> DEFINE m == Median(revealed)
  <2>1. m \in Nat /\ EpsilonMultiplier \in Nat /\ EpsilonFloor \in Nat \ {0}
    BY <1>3, ExchangeAssumption
  <2> HIDE DEF m
  <2>2. EpsilonMultiplier * m \in Nat
    BY <2>1
  <2>3. agreed' = EpsilonFloor + EpsilonMultiplier * m
    BY <1>1 DEF m
  <2> QED  BY <2>1, <2>2, <2>3
<1>5. GroupTerms'
  BY <1>1, <1>4 DEF GroupInv, GroupTerms
<1>6. SealedOwn' /\ DisclosedOwn'
  BY <1>1 DEF Nobody, SealedOwn, DisclosedOwn
<1> QED  BY <1>1, <1>5, <1>6 DEF GroupInv, Dissent, ReplayDecides

(* The two that replay report the same.                                    *)
LEMMA ReplaysAgree ==
  ASSUME GroupInv, round \in {"report", "distance"}, Exchanged
  PROVE  /\ \A p \in Verifiers : p \in DOMAIN revealed /\ revealed[p] = OwnReport(p)
         /\ round = "report" => revealed["trainer"] = OwnReport("trainer")
         /\ revealed["v1"] = revealed["v2"]
<1>1. DOMAIN revealed = Parties /\ \A p \in Parties : revealed[p] = OwnReport(p)
  BY DEF Exchanged, GroupInv, DisclosedOwn
<1>2. Verifiers \subseteq Parties /\ (round = "report" => "trainer" \in Parties)
  BY DEF Parties
<1>3. OwnReport("v1") = OwnReport("v2")
  BY DEF OwnReport, State
<1>4. "v1" \in Verifiers /\ "v2" \in Verifiers
  BY DEF Verifiers
<1> QED  BY <1>1, <1>2, <1>3, <1>4

(* The states of the trainer, of v0 and of the replay are points.          *)
LEMMA StatesAre ==
  ASSUME GroupInv, NEW i \in Intervals
  PROVE  /\ submission.t[i] \in Int /\ submission.v[i] \in Int /\ Replay[i] \in Int
         /\ \A p : State(p, i) \in Int
<1>1. /\ Checkpoints \subseteq Int /\ Replay \in [Intervals -> Checkpoints]
      /\ submission.t \in [Intervals -> Checkpoints]
      /\ submission.v \in [Intervals -> Checkpoints]
  BY ExchangeAssumption DEF GroupInv, GroupTerms, Diverging
<1>2. submission.t[i] \in Int /\ submission.v[i] \in Int /\ Replay[i] \in Int
  BY <1>1
<1> QED  BY <1>2 DEF State

(* The digests.  The majority has the digests of the replay, so a trainer  *)
(* is accepted and nobody dissents only if everybody has them.             *)
LEMMA DigestDecides ==
  ASSUME GroupInv, round = "report", Exchanged
  PROVE  /\ {"v1", "v2"} \subseteq EligibleByDigest
         /\ Unanimous <=> DigestsAgree
<1>1. /\ \A p \in Verifiers : p \in DOMAIN revealed /\ revealed[p] = OwnReport(p)
      /\ revealed["trainer"] = OwnReport("trainer")
      /\ revealed["v1"] = revealed["v2"]
      /\ "v0" \in Verifiers /\ "v1" \in Verifiers /\ "v2" \in Verifiers
  BY ReplaysAgree DEF Verifiers
<1>2. \A p : OwnReport(p) = [i \in Intervals |-> Digest(i, State(p, i))]
  BY DEF OwnReport
<1>3. {"v1", "v2"} \subseteq EligibleByDigest
  <2>1. ASSUME NEW v \in {"v1", "v2"} PROVE v \in EligibleByDigest
    <3>1. "v1" \in Agreeing(revealed[v]) /\ "v2" \in Agreeing(revealed[v])
      BY <1>1, <2>1 DEF Agreeing
    <3>2. Agreeing(revealed[v]) \in SUBSET Verifiers
      BY DEF Agreeing
    <3>3. 2 * Cardinality(Agreeing(revealed[v])) > Cardinality(Verifiers)
      BY <3>1, <3>2, TwoOfThree
    <3> QED  BY <1>1, <2>1, <3>3 DEF EligibleByDigest
  <2> QED  BY <2>1
<1>4. ASSUME NEW v \in EligibleByDigest PROVE revealed[v] = OwnReport("v1")
  <2>1. /\ Agreeing(revealed[v]) \in SUBSET Verifiers
        /\ 2 * Cardinality(Agreeing(revealed[v])) > Cardinality(Verifiers)
    BY <1>4 DEF Agreeing, EligibleByDigest
  <2>2. "v1" \in Agreeing(revealed[v]) \/ "v2" \in Agreeing(revealed[v])
    BY <2>1, MajorityReplays
  <2> QED  BY <1>1, <2>2 DEF Agreeing
<1>5. /\ OwnReport("trainer") = OwnReport("v1") <=> SameDigests(submission.t)
      /\ OwnReport("v0") = OwnReport("v1") <=> SameDigests(submission.v)
  <2>1. \A i : /\ State("trainer", i) = submission.t[i] /\ State("v0", i) = submission.v[i]
               /\ State("v1", i) = Replay[i]
    BY DEF State
  <2>2. /\ OwnReport("trainer") = [i \in Intervals |-> Digest(i, submission.t[i])]
        /\ OwnReport("v0") = [i \in Intervals |-> Digest(i, submission.v[i])]
        /\ OwnReport("v1") = [i \in Intervals |-> Digest(i, Replay[i])]
    BY <1>2, <2>1
  <2>3. ASSUME NEW f, NEW g
        PROVE  [i \in Intervals |-> Digest(i, f[i])] = [i \in Intervals |-> Digest(i, g[i])]
                 <=> \A i \in Intervals : Digest(i, f[i]) = Digest(i, g[i])
    OBVIOUS
  <2> QED  BY <2>2, <2>3 DEF SameDigests
<1>6. ASSUME Unanimous PROVE DigestsAgree
  <2>1. OwnReport("trainer") = OwnReport("v1")
    BY <1>1, <1>4, <1>6 DEF Unanimous, TrainerByDigest
  <2>2. "v0" \in EligibleByDigest
    BY <1>1, <1>6 DEF Unanimous
  <2>3. OwnReport("v0") = OwnReport("v1")
    BY <1>1, <1>4, <2>2
  <2> QED  BY <1>5, <2>1, <2>3 DEF DigestsAgree
<1>7. ASSUME DigestsAgree PROVE Unanimous
  <2>1. OwnReport("trainer") = OwnReport("v1") /\ OwnReport("v0") = OwnReport("v1")
    BY <1>5, <1>7 DEF DigestsAgree
  <2>2. \A v \in Verifiers : revealed[v] = OwnReport("v1")
    BY <1>1, <2>1 DEF Verifiers
  <2>3. \A v \in Verifiers : Agreeing(revealed[v]) = Verifiers
    BY <2>2 DEF Agreeing
  <2>4. 2 * Cardinality(Verifiers) > Cardinality(Verifiers)
    BY <1>1, TwoOfThree
  <2>5. EligibleByDigest = Verifiers
    BY <2>3, <2>4 DEF EligibleByDigest
  <2>6. revealed["v1"] = revealed["trainer"]
    BY <1>1, <2>1
  <2> QED  BY <1>1, <2>5, <2>6 DEF Unanimous, TrainerByDigest
<1> QED  BY <1>3, <1>6, <1>7

LEMMA ReportedHolds == ASSUME GroupInv, Reported PROVE GroupInv'
<1>1. /\ round = "report" /\ Exchanged /\ verdict' = DigestVerdict
      /\ round' = (IF Unanimous THEN "stopped" ELSE "distance") /\ agreed' = agreed
      /\ submission' = submission /\ hash' = hash /\ measured' = measured
      /\ exchangeClosed' = exchangeClosed /\ committed' = Nobody /\ revealed' = Nobody
  BY DEF Reported, NextExchange
<1>2. ~exchangeClosed /\ agreed > 0
  BY <1>1 DEF GroupInv, GroupTerms
<1>3. GroupTerms'
  BY <1>1, <1>2 DEF GroupInv, GroupTerms
<1>4. SealedOwn' /\ DisclosedOwn'
  BY <1>1 DEF Nobody, SealedOwn, DisclosedOwn
<1>5. {"v1", "v2"} \subseteq EligibleByDigest /\ (Unanimous <=> DigestsAgree)
  BY <1>1, DigestDecides
<1>6. DigestsAgree' <=> DigestsAgree
  BY <1>1 DEF DigestsAgree, SameDigests, Digest
<1>7. Dissent'
  BY <1>1, <1>5, <1>6 DEF Dissent
<1>8. ReplayDecides'
  <2> SUFFICES ASSUME round' = "stopped" PROVE ReplayDecides'
    BY DEF ReplayDecides
  <2>1. Unanimous /\ DigestsAgree'
    BY <1>1, <1>5, <1>6
  <2>2. /\ verdict'.trainer = "accepted" /\ verdict'.eligible = Verifiers
        /\ verdict'.by = "digest"
    BY <1>1, <2>1 DEF DigestVerdict, Unanimous
  <2>3. {"v0", "v1", "v2"} \subseteq verdict'.eligible
    BY <2>2 DEF Verifiers
  <2> QED  BY <1>1, <1>2, <2>1, <2>2, <2>3 DEF ReplayDecides
<1> QED  BY <1>3, <1>4, <1>7, <1>8 DEF GroupInv

(* The distances.  Two that replay see the same, so theirs is the view of  *)
(* the majority, and in it is who stays within the tolerance of the replay.*)
LEMMA DistanceDecides ==
  ASSUME GroupInv, round = "distance", Exchanged
  PROVE  /\ DistanceVerdict.by = "distance"
         /\ {"v1", "v2"} \subseteq DistanceVerdict.eligible
         /\ DistanceVerdict.trainer = (IF Within(submission.t, agreed) THEN "accepted" ELSE "rejected")
         /\ "v0" \in DistanceVerdict.eligible <=> Within(submission.v, agreed)
<1>1. /\ \A p \in Verifiers : p \in DOMAIN revealed /\ revealed[p] = OwnReport(p)
      /\ revealed["v1"] = revealed["v2"]
      /\ "v1" \in Verifiers /\ "v2" \in Verifiers
  BY ReplaysAgree DEF Verifiers
<1> DEFINE T == ThresholdVector("v1")
           majority == {v \in Verifiers : 2 * Cardinality(SameVector(v)) > Cardinality(Verifiers)}
<1>2. ThresholdVector("v2") = T
  BY <1>1 DEF ThresholdVector
<1>3. "v1" \in majority
  <2>1. SameVector("v1") \in SUBSET Verifiers /\ "v1" \in SameVector("v1") /\ "v2" \in SameVector("v1")
    BY <1>1, <1>2 DEF SameVector
  <2>2. 2 * Cardinality(SameVector("v1")) > Cardinality(Verifiers)
    BY <2>1, TwoOfThree
  <2> QED  BY <1>1, <2>2
<1>4. ASSUME NEW v \in majority PROVE ThresholdVector(v) = T
  <2>1. SameVector(v) \in SUBSET Verifiers
    BY DEF SameVector
  <2>2. 2 * Cardinality(SameVector(v)) > Cardinality(Verifiers)
    BY <1>4
  <2>3. "v1" \in SameVector(v) \/ "v2" \in SameVector(v)
    BY <2>1, <2>2, MajorityReplays
  <2> QED  BY <1>2, <2>3 DEF SameVector
<1>5. ThresholdVector(CHOOSE v \in majority : TRUE) = T
  <2>1. (CHOOSE v \in majority : TRUE) \in majority
    BY <1>3
  <2> QED  BY <1>4, <2>1
<1>6. ASSUME NEW q \in Verifiers \cup {"trainer"}
      PROVE  q \in T <=> \A i \in Intervals : Distance(State("v1", i), State(q, i)) < agreed
  <2>1. OwnReport("v1") = [i \in Intervals |->
          [u \in Verifiers \cup {"trainer"} |-> Distance(State("v1", i), State(u, i))]]
    BY DEF OwnReport
  <2>2. \A i \in Intervals : OwnReport("v1")[i][q] = Distance(State("v1", i), State(q, i))
    BY <2>1
  <2>3. \A i \in Intervals : revealed["v1"][i][q] = Distance(State("v1", i), State(q, i))
    BY <1>1, <2>2
  <2> QED  BY <2>3 DEF ThresholdVector
<1>7. {"v1", "v2"} \subseteq T
  <2>1. \A i \in Intervals : Distance(Replay[i], Replay[i]) < agreed
    BY StatesAre DEF Distance, GroupInv, GroupTerms
  <2>2. \A i : State("v1", i) = Replay[i] /\ State("v2", i) = Replay[i]
    BY DEF State
  <2> QED  BY <1>1, <1>6, <2>1, <2>2
<1>8. /\ "trainer" \in T <=> Within(submission.t, agreed)
      /\ "v0" \in T <=> Within(submission.v, agreed)
  <2>1. \A i \in Intervals : /\ Distance(Replay[i], submission.t[i]) = Distance(submission.t[i], Replay[i])
                             /\ Distance(Replay[i], submission.v[i]) = Distance(submission.v[i], Replay[i])
    BY StatesAre DEF Distance
  <2>2. \A i : /\ State("v1", i) = Replay[i] /\ State("trainer", i) = submission.t[i]
               /\ State("v0", i) = submission.v[i]
    BY DEF State
  <2>3. "v0" \in Verifiers
    BY DEF Verifiers
  <2> HIDE DEF T
  <2> QED  BY <1>6, <2>1, <2>2, <2>3 DEF Within
<1>9. DistanceVerdict = [trainer |-> IF "trainer" \in T THEN "accepted" ELSE "rejected",
                         eligible |-> T \ {"trainer"}, by |-> "distance"]
  <2>1. majority # {}
    BY <1>3
  <2> HIDE DEF T
  <2> QED  BY <1>5, <2>1 DEF DistanceVerdict
<1> HIDE DEF T
<1> QED  BY <1>7, <1>8, <1>9

LEMMA MeasuredHolds == ASSUME GroupInv, Measured PROVE GroupInv'
<1>1. /\ round = "distance" /\ Exchanged /\ verdict' = DistanceVerdict
      /\ round' = "stopped" /\ agreed' = agreed
      /\ submission' = submission /\ hash' = hash /\ measured' = measured
      /\ exchangeClosed' = exchangeClosed /\ committed' = Nobody /\ revealed' = Nobody
  BY DEF Measured, NextExchange
<1>2. ~exchangeClosed
  BY <1>1 DEF GroupInv, GroupTerms
<1>3. GroupTerms' /\ Dissent'
  BY <1>1 DEF GroupInv, GroupTerms, Dissent
<1>4. /\ DistanceVerdict.by = "distance"
      /\ {"v1", "v2"} \subseteq DistanceVerdict.eligible
      /\ DistanceVerdict.trainer = (IF Within(submission.t, agreed) THEN "accepted" ELSE "rejected")
      /\ "v0" \in DistanceVerdict.eligible <=> Within(submission.v, agreed)
  BY <1>1, DistanceDecides
<1>5. /\ Within(submission.t, agreed)' <=> Within(submission.t, agreed)
      /\ Within(submission.v, agreed)' <=> Within(submission.v, agreed)
      /\ DigestsAgree' <=> DigestsAgree
  BY <1>1 DEF Within, DigestsAgree, SameDigests, Digest
<1>6. ~DigestsAgree'
  BY <1>1, <1>5 DEF GroupInv, Dissent
<1>7. ReplayDecides'
  BY <1>1, <1>2, <1>4, <1>5, <1>6 DEF ReplayDecides
<1> QED  BY <1>1, <1>3, <1>7 DEF GroupInv

LEMMA ExchangeStarts == ExchangeInit => GroupInv
<1> SUFFICES ASSUME ExchangeInit PROVE GroupInv
  OBVIOUS
<1>1. /\ submission \in [t: Diverging, v: Diverging] /\ hash \in [Intervals -> Hashes]
      /\ measured \in [Estimators -> Nat]
  BY ExchangeAssumption DEF ExchangeInit
<1>2. GroupTerms /\ Dissent /\ ReplayDecides
  BY <1>1 DEF ExchangeInit, GroupTerms, Dissent, ReplayDecides
<1>3. SealedOwn /\ DisclosedOwn
  BY DEF ExchangeInit, Nobody, SealedOwn, DisclosedOwn
<1> QED  BY <1>2, <1>3 DEF GroupInv

LEMMA ExchangeIdle == ASSUME GroupInv, UNCHANGED group PROVE GroupInv'
<1>1. /\ submission' = submission /\ hash' = hash /\ measured' = measured
      /\ round' = round /\ agreed' = agreed /\ exchangeClosed' = exchangeClosed /\ verdict' = verdict
      /\ committed' = committed /\ revealed' = revealed
  BY DEF group, exchange
<1>2. /\ Parties' = Parties /\ \A q : OwnReport(q)' = OwnReport(q)
      /\ GroupTerms' /\ Dissent'
  BY <1>1, OwnKept, TermsKept
<1>3. ReplayDecides'
  BY <1>1 DEF GroupInv, ReplayDecides, Within, DigestsAgree, SameDigests, Digest
<1> QED  BY <1>1, <1>2, <1>3 DEF GroupInv, SealedOwn, DisclosedOwn

(* An exchange of execute_native_group is fair, whatever the trainer and   *)
(* one verifier submit and whatever they copy, for any intervals,          *)
(* checkpoints, digests and tolerances: who is accepted and eligible is    *)
(* settled by what the two that replay obtain.  An acceptance by digest    *)
(* says nothing of a distance.                                             *)
THEOREM ExchangeFairAlways == ExchangeSpec => []ExchangeFair
<1>1. GroupInv /\ [ExchangeNext]_group => GroupInv'
  <2> SUFFICES ASSUME GroupInv, [ExchangeNext]_group PROVE GroupInv'
    OBVIOUS
  <2>1. ASSUME NEW p \in Parties, Commit(p) PROVE GroupInv'
    BY <2>1, CommitHolds
  <2>2. ASSUME NEW p \in Parties, Reveal(p) PROVE GroupInv'
    BY <2>2, RevealHolds
  <2>3. CASE Expire
    BY <2>3, ExpireHolds
  <2>4. CASE Estimated
    BY <2>4, EstimatedHolds
  <2>5. CASE Reported
    BY <2>5, ReportedHolds
  <2>6. CASE Measured
    BY <2>6, MeasuredHolds
  <2>7. CASE UNCHANGED group
    BY <2>7, ExchangeIdle
  <2> QED  BY <2>1, <2>2, <2>3, <2>4, <2>5, <2>6, <2>7 DEF ExchangeNext
<1>2. GroupInv => ExchangeFair
  BY DEF GroupInv, DisclosedOwn, ExchangeFair, ReportsAreOwn
<1> QED  BY ExchangeStarts, <1>1, <1>2, PTL DEF ExchangeSpec
===============================================================================
