----------------------- MODULE VerifierAssignmentsProofs -----------------------
(***************************************************************************)
(* Theorems about VerifierAssignments, for every block, mix of behaviours  *)
(* and registered policy: bundles of one job differ as agreed, and no      *)
(* settlement turns on a verifier that replays.  And about ReplayBank, the *)
(* block those assignments are made of: for any number of segments, a bank *)
(* that is read back answers as the live one did.  And about               *)
(* ProductionAudit: for populations of any size, one sample is drawn for a *)
(* report, and as many samples fail it as published.                       *)
(***************************************************************************)
EXTENDS VerifierAssignments, ReplayBank, ProductionAudit, SetSums, FiniteSetTheorems, TLAPS

-------------------------------------------------------------------------------
(* The inductive invariant                                                 *)

(* What no step changes.                                                   *)
RunInv == block \in Blocks /\ behavior \in Mixes /\ policy \in Policies

(* Where a run is says who has a bundle, a report and a row.               *)
PhaseInv ==
  /\ phase \in {"prepare", "report", "settle", "settled", "raised"}
  /\ phase = "prepare" => DOMAIN bundles \subseteq Assignments /\ DOMAIN bundles # Assignments
  /\ phase \in {"report", "settle", "settled"} => DOMAIN bundles = Assignments
  /\ phase \in {"settle", "settled"} => DOMAIN reports = Assignments
  /\ phase = "prepare" => DOMAIN reports = {}

(* Every bundle is some of the block, and has something to vote on.        *)
BundleInv ==
  \A a \in DOMAIN bundles :
    /\ bundles[a] \subseteq Sources /\ bundles[a] # {}
    /\ policy.personalized => bundles[a] \cap Production # {}

(* A verifier that replays reports what it saw; one that passes everything *)
(* does.                                                                   *)
ReportInv ==
  \A a \in DOMAIN reports :
    /\ Honest(a) => reports[a] = Seen(bundles[a])
    /\ behavior[V(a)] \in {"always-pass", "minority-collusion"} =>
         reports[a] = Replayed(bundles[a], "pass")

(* A row is what the rules say of the bundles and reports there are.       *)
RowInv == phase = "settled" => settled = [a \in Assignments |-> RowOf(a)]

ServiceInv ==
  /\ RunInv /\ PhaseInv /\ BundleInv /\ BundlesDiffer /\ ReportInv /\ RowInv

(* A policy of a run is one of the registered ones.                        *)
LEMMA PolicyFacts ==
  ASSUME RunInv
  PROVE  /\ policy.task \in {"majority-only", "hidden-audit-v1", "hidden-sentinel-bundle"}
         /\ policy.settlement \in {"adjudication", "critical-audit-v1", "majority-match"}
         /\ policy.personalized \in BOOLEAN
         /\ policy.task = "hidden-audit-v1" => ~policy.personalized
         /\ policy.count \in Nat \ {0} /\ policy.threshold \in Nat \ {0}
BY PolicyAssumption DEF RunInv

LEMMA Nonempty == Assignments # {} /\ IsFiniteSet(Assignments)
<1>1. PICK v \in Verifiers, j \in Jobs : TRUE
  BY AllocationAssumption
<1>2. <<v, j>> \in Assignments
  BY DEF Assignments
<1>3. IsFiniteSet(Assignments)
  BY AllocationAssumption, FS_Product DEF Assignments
<1> QED  BY <1>2, <1>3

LEMMA InitHolds == Init => ServiceInv
<1> SUFFICES ASSUME Init PROVE ServiceInv
  OBVIOUS
<1>1. DOMAIN bundles = {} /\ DOMAIN reports = {} /\ phase = "prepare"
  BY DEF Init, Empty
<1>2. RunInv
  BY DEF Init, RunInv
<1>3. PhaseInv
  BY <1>1, Nonempty DEF PhaseInv
<1>4. BundleInv /\ BundlesDiffer /\ ReportInv /\ RowInv
  BY <1>1 DEF BundleInv, BundlesDiffer, ReportInv, RowInv
<1> QED  BY <1>2, <1>3, <1>4 DEF ServiceInv

-------------------------------------------------------------------------------
(* Preparing                                                               *)

(* Whatever the policy offers is part of the block, and never nothing.     *)
LEMMA OfferFacts ==
  ASSUME RunInv, NEW a, NEW bundle \in Offered(a)
  PROVE  /\ bundle \subseteq Sources /\ bundle # {}
         /\ policy.personalized => bundle \cap Production # {}
<1>1. bundle # {} /\ bundle \in Selected(a)
  BY DEF Offered
<1>2. CASE policy.task = "majority-only"
  BY <1>1, <1>2, PolicyFacts DEF Selected, Sources
<1>3. CASE policy.task = "hidden-audit-v1"
  <2>1. bundle \in {Prefix(Max({1, (Cardinality(Sources) * policy.auditRate + 99) \div 100}))}
    BY <1>1, <1>3 DEF Selected
  <2>2. bundle \subseteq Sources
    BY <2>1 DEF Prefix
  <2> QED  BY <1>1, <1>3, <2>2, PolicyFacts
<1>4. CASE policy.task = "hidden-sentinel-bundle"
  <2>1. CASE policy.personalized
    <3>1. Production # {} /\ \E S \in Subsets(a) : bundle = Production \cup S
      BY <1>1, <1>4, <2>1 DEF Selected
    <3>2. \A S \in Subsets(a) : S \subseteq Sentinels
      BY DEF Subsets, kSubset
    <3> QED  BY <3>1, <3>2 DEF Sources
  <2>2. CASE ~policy.personalized
    <3>1. bundle \in {SentinelPrefix(policy.count)}
      BY <1>1, <1>4, <2>2, PolicyFacts DEF Selected
    <3>2. bundle \subseteq Sources
      BY <3>1 DEF SentinelPrefix, Sources
    <3> QED  BY <1>1, <2>2, <3>2
  <2> QED  BY <2>1, <2>2
<1> QED  BY <1>2, <1>3, <1>4, PolicyFacts

LEMMA PrepareHolds ==
  ASSUME ServiceInv, Prepare
  PROVE  ServiceInv'
<1> DEFINE a == CHOOSE b \in Unprepared : TRUE
<1>1. phase = "prepare" /\ UNCHANGED <<block, behavior, policy, reports, effort, settled>>
  BY DEF Prepare
<1>2. a \in Assignments /\ a \notin DOMAIN bundles
  <2>1. Unprepared # {}
    BY <1>1 DEF ServiceInv, PhaseInv, Unprepared
  <2>2. a \in Unprepared
    BY <2>1
  <2> QED  BY <2>2 DEF Unprepared
<1>3. RunInv'
  BY <1>1 DEF ServiceInv, RunInv
<1>4. DOMAIN reports' = {} /\ DOMAIN reports = {}
  BY <1>1 DEF ServiceInv, PhaseInv
<1>5. ReportInv'
  BY <1>4 DEF ReportInv
<1>6. CASE Offered(a) = {}
  <2>1. phase' = "raised" /\ bundles' = bundles
    BY <1>6 DEF Prepare
  <2>2. PhaseInv' /\ RowInv'
    BY <2>1 DEF PhaseInv, RowInv
  <2>3. BundleInv' /\ BundlesDiffer'
    BY <1>1, <2>1 DEF ServiceInv, BundleInv, BundlesDiffer, SentinelsOf, JaccardWithin
  <2> QED  BY <1>3, <1>5, <2>2, <2>3 DEF ServiceInv
<1>7. CASE Offered(a) # {}
  <2>1. PICK bundle \in Offered(a) : bundles' = Extend(bundles, a, bundle)
    BY <1>7 DEF Prepare
  <2>2. phase' = IF Unprepared = {a} THEN "report" ELSE phase
    BY <1>7 DEF Prepare
  <2> HIDE DEF a
  <2>3. /\ DOMAIN bundles' = DOMAIN bundles \cup {a}
        /\ bundles'[a] = bundle
        /\ \A b \in DOMAIN bundles : bundles'[b] = bundles[b]
    BY <1>2, <2>1 DEF Extend
  <2>4. PhaseInv'
    <3>1. DOMAIN bundles' \subseteq Assignments
      BY <1>1, <1>2, <2>3 DEF ServiceInv, PhaseInv
    <3>2. Unprepared = {a} <=> DOMAIN bundles' = Assignments
      BY <1>2, <2>3, <3>1 DEF Unprepared
    <3> QED  BY <1>1, <1>4, <2>2, <3>1, <3>2 DEF PhaseInv, Assignments
  <2>5. BundleInv'
    <3>1. RunInv
      BY DEF ServiceInv
    <3>2. /\ bundle \subseteq Sources /\ bundle # {}
          /\ policy.personalized => bundle \cap Production # {}
      BY <3>1, OfferFacts
    <3>3. \A b \in DOMAIN bundles :
            /\ bundles[b] \subseteq Sources /\ bundles[b] # {}
            /\ policy.personalized => bundles[b] \cap Production # {}
      BY DEF ServiceInv, BundleInv
    <3> QED  BY <1>1, <2>3, <3>2, <3>3 DEF BundleInv
  <2>6. BundlesDiffer'
    <3> SUFFICES ASSUME policy.task = "hidden-sentinel-bundle", policy.personalized
                 PROVE  BundlesDiffer'
      BY <1>1 DEF BundlesDiffer
    <3>1. PICK S \in Subsets(a) : bundle = Production \cup S
      <4>1. bundle \in Selected(a)
        BY DEF Offered
      <4>2. Selected(a) = IF \/ policy.count > Cardinality(Sentinels)
                             \/ policy.personalized /\ Production = {} THEN {}
                          ELSE {Production \cup S : S \in Subsets(a)}
        BY DEF Selected
      <4>3. bundle \in {Production \cup S : S \in Subsets(a)}
        BY <4>1, <4>2
      <4> QED  BY <4>3
    <3>2. /\ S \subseteq Sentinels /\ Cardinality(S) = policy.count
          /\ \A b \in Earlier(a) : JaccardWithin(S, SentinelsOf(b))
      BY <3>1 DEF Subsets, kSubset
    <3>3. bundle \cap Sentinels = S /\ Production \subseteq bundle
      <4>1. Production \cap Sentinels = {}
        BY AllocationAssumption
      <4> QED  BY <3>1, <3>2, <4>1
    <3>4. \A b \in DOMAIN bundles :
            /\ Production \subseteq bundles[b]
            /\ Cardinality(bundles[b] \cap Sentinels) = policy.count
            /\ \A c \in DOMAIN bundles \ {b} : J(b) = J(c) =>
                 JaccardWithin(bundles[b] \cap Sentinels, bundles[c] \cap Sentinels)
      BY DEF ServiceInv, BundlesDiffer, SentinelsOf
    <3>5. bundles'[a] \cap Sentinels = S
      BY <2>3, <3>3
    <3>6. \A left, right : JaccardWithin(left, right) <=> JaccardWithin(right, left)
      <4>1. \A left, right : left \cap right = right \cap left /\ left \cup right = right \cup left
        OBVIOUS
      <4> QED  BY <4>1 DEF JaccardWithin
    <3>7. \A b \in DOMAIN bundles : J(a) = J(b) =>
            /\ JaccardWithin(S, bundles[b] \cap Sentinels)
            /\ JaccardWithin(bundles[b] \cap Sentinels, S)
      BY <3>2, <3>6 DEF Earlier, SentinelsOf
    <3>8. \A b \in DOMAIN bundles' :
            /\ Production \subseteq bundles'[b]
            /\ Cardinality(bundles'[b] \cap Sentinels) = policy.count
      <4> SUFFICES ASSUME NEW b \in DOMAIN bundles'
                   PROVE  /\ Production \subseteq bundles'[b]
                          /\ Cardinality(bundles'[b] \cap Sentinels) = policy.count
        OBVIOUS
      <4>1. CASE b = a
        BY <2>3, <3>2, <3>3, <3>5, <4>1
      <4>2. CASE b # a
        <5>1. b \in DOMAIN bundles /\ bundles'[b] = bundles[b]
          BY <2>3, <4>2
        <5> QED  BY <3>4, <5>1
      <4> QED  BY <4>1, <4>2
    <3>9. \A b, c \in DOMAIN bundles' : (b # c /\ J(b) = J(c)) =>
            JaccardWithin(bundles'[b] \cap Sentinels, bundles'[c] \cap Sentinels)
      <4> SUFFICES ASSUME NEW b \in DOMAIN bundles', NEW c \in DOMAIN bundles', b # c, J(b) = J(c)
                   PROVE  JaccardWithin(bundles'[b] \cap Sentinels, bundles'[c] \cap Sentinels)
        OBVIOUS
      <4>1. CASE b = a
        <5>1. c \in DOMAIN bundles /\ bundles'[c] = bundles[c]
          BY <2>3, <4>1
        <5> QED  BY <3>5, <3>7, <4>1, <5>1
      <4>2. CASE c = a
        <5>1. b \in DOMAIN bundles /\ bundles'[b] = bundles[b] /\ J(a) = J(b)
          BY <2>3, <4>2
        <5> QED  BY <3>5, <3>7, <4>2, <5>1
      <4>3. CASE b # a /\ c # a
        <5>1. /\ b \in DOMAIN bundles /\ bundles'[b] = bundles[b]
              /\ c \in DOMAIN bundles \ {b} /\ bundles'[c] = bundles[c]
          BY <2>3, <4>3
        <5> QED  BY <3>4, <5>1
      <4> QED  BY <4>1, <4>2, <4>3
    <3>10. \A b \in DOMAIN bundles' : \A c \in DOMAIN bundles' \ {b} : J(b) = J(c) =>
             100 * Cardinality((bundles'[b] \cap Sentinels) \cap (bundles'[c] \cap Sentinels))
               <= policy.maximumJaccard
                    * Cardinality((bundles'[b] \cap Sentinels) \cup (bundles'[c] \cap Sentinels))
      BY <3>9 DEF JaccardWithin
    <3> QED  BY <1>1, <3>8, <3>10 DEF BundlesDiffer, JaccardWithin, SentinelsOf
  <2>7. RowInv'
    BY <1>1, <2>2 DEF RowInv
  <2> QED  BY <1>3, <1>5, <2>4, <2>5, <2>6, <2>7 DEF ServiceInv
<1> QED  BY <1>6, <1>7

-------------------------------------------------------------------------------
(* Reporting and settling                                                  *)

LEMMA ReportsOf ==
  ASSUME NEW key, NEW a, NEW report \in ReportsBy(key, a)
  PROVE  /\ key = "honest" => report.verdicts = Seen(bundles[a])
         /\ key \in {"always-pass", "minority-collusion"} =>
              report.verdicts = Replayed(bundles[a], "pass")
<1>1. CASE key = "honest"
  <2>1. ReportsBy(key, a) = {Report(Seen(bundles[a]), Cardinality(bundles[a]))}
    BY <1>1 DEF ReportsBy
  <2> QED  BY <1>1, <2>1 DEF Report
<1>2. CASE key \in {"always-pass", "minority-collusion"}
  <2>1. ReportsBy(key, a) = {Report(Replayed(bundles[a], "pass"), 0)}
    BY <1>2 DEF ReportsBy
  <2> QED  BY <1>2, <2>1 DEF Report
<1> QED  BY <1>1, <1>2

LEMMA ExecuteHolds ==
  ASSUME ServiceInv, NEW a \in Assignments, Execute(a)
  PROVE  ServiceInv'
<1>1. /\ phase = "report" /\ a \notin DOMAIN reports
      /\ UNCHANGED <<block, behavior, policy, bundles, settled>>
  BY DEF Execute
<1>2. RunInv' /\ BundleInv' /\ BundlesDiffer'
  BY <1>1 DEF ServiceInv, RunInv, BundleInv, BundlesDiffer, SentinelsOf, JaccardWithin
<1>3. DOMAIN bundles = Assignments
  BY <1>1 DEF ServiceInv, PhaseInv
<1>4. CASE phase' = "raised" /\ UNCHANGED <<reports, effort>>
  BY <1>1, <1>2, <1>4
  DEF ServiceInv, PhaseInv, ReportInv, RowInv, Honest, Seen, Replayed
<1>5. ASSUME NEW report \in ReportsBy(behavior[V(a)], a),
             reports' = Extend(reports, a, report.verdicts),
             phase' = IF DOMAIN reports' = Assignments THEN "settle" ELSE phase
      PROVE  ServiceInv'
  <2>1. /\ DOMAIN reports' = DOMAIN reports \cup {a}
        /\ reports'[a] = report.verdicts
        /\ \A b \in DOMAIN reports : reports'[b] = reports[b]
    BY <1>1, <1>5 DEF Extend
  <2>2. PhaseInv' /\ RowInv'
    BY <1>1, <1>3, <1>5, <2>1 DEF PhaseInv, RowInv, Assignments
  <2>3. /\ Honest(a) => report.verdicts = Seen(bundles[a])
        /\ behavior[V(a)] \in {"always-pass", "minority-collusion"} =>
             report.verdicts = Replayed(bundles[a], "pass")
    BY ReportsOf DEF Honest
  <2>4. \A b \in DOMAIN reports :
          /\ Honest(b) => reports[b] = Seen(bundles[b])
          /\ behavior[V(b)] \in {"always-pass", "minority-collusion"} =>
               reports[b] = Replayed(bundles[b], "pass")
    BY DEF ServiceInv, ReportInv
  <2>5. \A b \in DOMAIN reports' :
          /\ Honest(b) => reports'[b] = Seen(bundles[b])
          /\ behavior[V(b)] \in {"always-pass", "minority-collusion"} =>
               reports'[b] = Replayed(bundles[b], "pass")
    BY <2>1, <2>3, <2>4
  <2>6. ReportInv'
    BY <1>1, <2>5 DEF ReportInv, Honest, Seen, Replayed
  <2> QED  BY <1>2, <2>2, <2>6 DEF ServiceInv
<1> QED  BY <1>4, <1>5 DEF Execute

LEMMA SettleHolds ==
  ASSUME ServiceInv, Settle
  PROVE  ServiceInv'
<1>1. /\ phase = "settle" /\ phase' = "settled" /\ settled' = [a \in Assignments |-> RowOf(a)]
      /\ UNCHANGED <<block, behavior, policy, bundles, reports, effort>>
  BY DEF Settle
<1>2. RunInv' /\ BundleInv' /\ BundlesDiffer'
  BY <1>1 DEF ServiceInv, RunInv, BundleInv, BundlesDiffer, SentinelsOf, JaccardWithin
<1>3. PhaseInv' /\ ReportInv'
  BY <1>1 DEF ServiceInv, PhaseInv, ReportInv, Honest, Seen, Replayed, Assignments
<1>4. RowInv'
  <2>1. \A a : RowOf(a)' = RowOf(a)
    BY <1>1 DEF RowOf, Adjudicated, Scored, Matched, Committed, Mismatches, Confirmed,
         SentinelsOf, Comparable, Voted, MajorityOf, VotesFor, Row
  <2> QED  BY <1>1, <2>1 DEF RowInv
<1> QED  BY <1>2, <1>3, <1>4 DEF ServiceInv

LEMMA NextHolds == ServiceInv /\ [Next]_vars => ServiceInv'
<1> SUFFICES ASSUME ServiceInv, [Next]_vars PROVE ServiceInv'
  OBVIOUS
<1>1. CASE Prepare
  BY <1>1, PrepareHolds
<1>2. ASSUME NEW a \in Assignments, Execute(a) PROVE ServiceInv'
  BY <1>2, ExecuteHolds
<1>3. CASE Settle
  BY <1>3, SettleHolds
<1>4. CASE UNCHANGED vars
  <2>1. UNCHANGED <<block, behavior, policy, bundles, reports, effort, settled, phase>>
    BY <1>4 DEF vars
  <2>2. RunInv' /\ PhaseInv' /\ BundleInv'
    BY <2>1 DEF ServiceInv, RunInv, PhaseInv, BundleInv
  <2>3. BundlesDiffer'
    BY <2>1 DEF ServiceInv, BundlesDiffer, SentinelsOf, JaccardWithin
  <2>4. ReportInv'
    BY <2>1 DEF ServiceInv, ReportInv, Honest, Seen, Replayed
  <2>5. \A a : RowOf(a)' = RowOf(a)
    BY <2>1 DEF RowOf, Adjudicated, Scored, Matched, Committed, Mismatches, Confirmed,
         SentinelsOf, Comparable, Voted, MajorityOf, VotesFor, Row
  <2>6. RowInv'
    BY <2>1, <2>5 DEF ServiceInv, RowInv
  <2> QED  BY <2>2, <2>3, <2>4, <2>6 DEF ServiceInv
<1> QED  BY <1>1, <1>2, <1>3, <1>4 DEF Next

LEMMA Invariance == Spec => []ServiceInv
<1>1. Init => ServiceInv
  BY InitHolds
<1>2. ServiceInv /\ [Next]_vars => ServiceInv'
  BY NextHolds
<1> QED  BY <1>1, <1>2, PTL DEF Spec

(* A personalised bundle holds all the production and exactly the agreed   *)
(* sentinels, and no two of one job share more of them than agreed, for    *)
(* every committee, block and registered policy.                           *)
THEOREM BundlesDifferAlways == Spec => []BundlesDiffer
<1>1. ServiceInv => BundlesDiffer
  BY DEF ServiceInv
<1> QED  BY <1>1, Invariance, PTL

-------------------------------------------------------------------------------
(* Settling is just                                                        *)

LEMMA RowFacts ==
  ASSUME NEW status, NEW fee \in Nat, NEW bond \in Nat
  PROVE  /\ Row(status, fee, bond).status = status
         /\ Row(status, fee, bond).fee = IF status = "PASS" THEN fee ELSE 0
         /\ Row(status, fee, bond).slashed > 0 => status \in {"FAIL_CONFIRMED", "DROPOUT"}
BY DEF Row

(* What a settled run knows of an assignment.                              *)
LEMMA SettledFacts ==
  ASSUME ServiceInv, phase = "settled", NEW a \in Assignments
  PROVE  /\ settled[a] = RowOf(a) /\ DOMAIN settled = Assignments
         /\ bundles[a] \subseteq Sources /\ bundles[a] # {} /\ IsFiniteSet(bundles[a])
         /\ policy.personalized => bundles[a] \cap Production # {}
         /\ Honest(a) => \A s \in bundles[a] :
              reports[a][s] = block.replay[s] /\ block.replay[s] \in {"pass", "fail"}
         /\ behavior[V(a)] \in {"always-pass", "minority-collusion"} =>
              \A s \in bundles[a] : reports[a][s] = "pass"
<1>1. a \in DOMAIN bundles /\ a \in DOMAIN reports
  BY DEF ServiceInv, PhaseInv
<1>2. settled = [b \in Assignments |-> RowOf(b)]
  BY DEF ServiceInv, RowInv
<1>3. /\ bundles[a] \subseteq Sources /\ bundles[a] # {}
      /\ policy.personalized => bundles[a] \cap Production # {}
  BY <1>1 DEF ServiceInv, BundleInv
<1>4. IsFiniteSet(bundles[a])
  BY <1>3, AllocationAssumption, FS_Subset
<1>5. block.replay \in [Sources -> {"pass", "fail"}]
  BY BlockAssumption DEF ServiceInv, RunInv
<1>6. Honest(a) => \A s \in bundles[a] :
        reports[a][s] = block.replay[s] /\ block.replay[s] \in {"pass", "fail"}
  BY <1>1, <1>3, <1>5 DEF ServiceInv, ReportInv, Seen
<1>7. behavior[V(a)] \in {"always-pass", "minority-collusion"} =>
        \A s \in bundles[a] : reports[a][s] = "pass"
  BY <1>1 DEF ServiceInv, ReportInv, Replayed
<1> QED  BY <1>2, <1>3, <1>4, <1>6, <1>7

LEMMA HonestCommits ==
  ASSUME ServiceInv, phase = "settled", NEW a \in Assignments, Honest(a)
  PROVE  Committed(a)
<1>1. PICK s \in bundles[a] : TRUE
  BY SettledFacts
<1>2. reports[a][s] # "none"
  BY <1>1, SettledFacts
<1> QED  BY <1>1, <1>2 DEF Committed

(* What is counted among the sentinels of a bundle is a natural number.    *)
LEMMA SentinelCounts ==
  ASSUME ServiceInv, phase = "settled", NEW a \in Assignments, NEW S \in SUBSET bundles[a],
         NEW T \in SUBSET S
  PROVE  /\ Cardinality(S) \in Nat /\ Cardinality(T) \in Nat
         /\ Cardinality(T) <= Cardinality(S)
<1>1. IsFiniteSet(bundles[a])
  BY SettledFacts
<1>2. IsFiniteSet(S) /\ IsFiniteSet(T) /\ Cardinality(T) <= Cardinality(S)
  BY <1>1, FS_Subset
<1> QED  BY <1>2, FS_CardinalityType

LEMMA AdjudicatedJust ==
  ASSUME ServiceInv
  PROVE  AdjudicationJust
<1> SUFFICES ASSUME phase = "settled", policy.settlement = "adjudication", NEW a \in Assignments
             PROVE
      LET status == settled[a].status
      IN  /\ (Honest(a) /\ status = "FAIL_CONFIRMED") =>
               Cardinality({s \in SentinelsOf(a) : block.replay[s] # block.rerun[s]})
                 >= policy.threshold
          /\ Honest(a) => status # "DROPOUT"
          /\ Repeats(SentinelsOf(a)) =>
               /\ status = "PASS" <=> (\E s \in bundles[a] : reports[a][s] # "none")
                                        /\ Cardinality(Contradicted(a)) < policy.threshold
               /\ status # "TECHNICAL_FAILURE"
               /\ (effort[a] = 0 /\ status = "PASS"
                     /\ behavior[V(a)] \in {"always-pass", "minority-collusion"}) =>
                    Cardinality({s \in SentinelsOf(a) : block.expected[s] = "fail"})
                      < policy.threshold
  BY DEF AdjudicationJust
<1> DEFINE status == settled[a].status
           wrong == Cardinality(Mismatches(a))
           confirmed == Cardinality(Confirmed(a))
           Differ == {s \in SentinelsOf(a) : block.replay[s] # block.rerun[s]}
           Failing == {s \in SentinelsOf(a) : block.expected[s] = "fail"}
<1>1. status = Adjudicated(a)
  <2>1. settled[a] = Row(Adjudicated(a), 0, 0)
    BY SettledFacts DEF RowOf
  <2> QED  BY <2>1, RowFacts
<1>2. policy.threshold \in Nat
  BY PolicyFacts DEF ServiceInv
<1>3. /\ SentinelsOf(a) \in SUBSET bundles[a] /\ Mismatches(a) \in SUBSET bundles[a]
      /\ Mismatches(a) \in SUBSET SentinelsOf(a) /\ Confirmed(a) \in SUBSET Mismatches(a)
      /\ Differ \in SUBSET bundles[a] /\ Failing \in SUBSET bundles[a]
  BY DEF SentinelsOf, Mismatches, Confirmed
<1>4. wrong \in Nat /\ confirmed \in Nat
  BY <1>3, SentinelCounts
<1>5. /\ status = "PASS" <=> Committed(a) /\ wrong < policy.threshold
      /\ status = "DROPOUT" <=> ~Committed(a)
      /\ status = "FAIL_CONFIRMED" <=>
           Committed(a) /\ wrong >= policy.threshold /\ confirmed >= policy.threshold
      /\ status \in {"PASS", "DROPOUT", "FAIL_CONFIRMED", "TECHNICAL_FAILURE"}
  <2> HIDE DEF status
  <2>1. CASE ~Committed(a)
    BY <1>1, <2>1 DEF Adjudicated
  <2>2. CASE Committed(a) /\ wrong < policy.threshold
    BY <1>1, <1>2, <1>4, <2>2 DEF Adjudicated
  <2>3. CASE Committed(a) /\ wrong >= policy.threshold
    <3>1. status = IF confirmed >= policy.threshold THEN "FAIL_CONFIRMED"
                   ELSE "TECHNICAL_FAILURE"
      BY <1>1, <1>2, <1>4, <2>3 DEF Adjudicated
    <3> QED  BY <1>2, <1>4, <2>3, <3>1
  <2> QED  BY <1>2, <1>4, <2>1, <2>2, <2>3
<1>6. (Honest(a) /\ status = "FAIL_CONFIRMED") => Cardinality(Differ) >= policy.threshold
  <2> SUFFICES ASSUME Honest(a), status = "FAIL_CONFIRMED"
               PROVE  Cardinality(Differ) >= policy.threshold
    OBVIOUS
  <2>1. Confirmed(a) \in SUBSET Differ
    BY <1>3, SettledFacts DEF Confirmed, Mismatches
  <2>2. confirmed <= Cardinality(Differ) /\ Cardinality(Differ) \in Nat
    <3> HIDE DEF Differ
    <3> QED  BY <1>3, <2>1, SentinelCounts
  <2> QED  BY <1>2, <1>4, <1>5, <2>2
<1>7. Honest(a) => status # "DROPOUT"
  BY <1>5, HonestCommits
<1>8. ASSUME Repeats(SentinelsOf(a))
      PROVE  /\ Confirmed(a) = Mismatches(a) /\ Contradicted(a) = Mismatches(a)
             /\ status # "TECHNICAL_FAILURE"
  <2>1. Confirmed(a) = Mismatches(a) /\ Contradicted(a) = Mismatches(a)
    BY <1>8 DEF Repeats, Confirmed, Mismatches, Contradicted
  <2> QED  BY <1>2, <1>4, <1>5, <2>1
<1>9. (status = "PASS" /\ behavior[V(a)] \in {"always-pass", "minority-collusion"}) =>
        Cardinality(Failing) < policy.threshold
  <2> SUFFICES ASSUME status = "PASS", behavior[V(a)] \in {"always-pass", "minority-collusion"}
               PROVE  Cardinality(Failing) < policy.threshold
    OBVIOUS
  <2>1. Failing \in SUBSET Mismatches(a)
    BY <1>3, SettledFacts DEF Mismatches
  <2>2. Cardinality(Failing) <= wrong /\ Cardinality(Failing) \in Nat
    <3> HIDE DEF Failing
    <3> QED  BY <1>3, <2>1, SentinelCounts
  <2> QED  BY <1>2, <1>4, <1>5, <2>2
<1> QED  BY <1>5, <1>6, <1>7, <1>8, <1>9 DEF Committed

LEMMA ScoredJust ==
  ASSUME ServiceInv
  PROVE  ScoreJust
<1> SUFFICES ASSUME phase = "settled", policy.settlement = "critical-audit-v1",
                    NEW a \in Assignments, Honest(a), settled[a].slashed > 0
             PROVE  Cardinality({s \in bundles[a] \ block.technical :
                                   block.replay[s] # block.expected[s]}) >= policy.threshold
  BY DEF ScoreJust
<1>1. settled[a] = Row(Scored(a), Fee, Bond)
  BY SettledFacts DEF RowOf
<1>2. Scored(a) \in {"FAIL_CONFIRMED", "DROPOUT"}
  BY <1>1, RowFacts, AllocationAssumption
<1>3. Committed(a)
  BY HonestCommits
<1>4. Cardinality({s \in Comparable(a) : reports[a][s] # block.expected[s]}) >= policy.threshold
  <2>1. CASE Comparable(a) = {}
    BY <1>2, <1>3, <2>1 DEF Scored
  <2>2. CASE Comparable(a) # {}
    <3>1. Scored(a) = IF Cardinality({s \in Comparable(a) : reports[a][s] # block.expected[s]})
                           >= policy.threshold
                      THEN "FAIL_CONFIRMED" ELSE "PASS"
      BY <1>3, <2>2 DEF Scored
    <3> QED  BY <1>2, <3>1
  <2> QED  BY <2>1, <2>2
<1>5. {s \in Comparable(a) : reports[a][s] # block.expected[s]}
        = {s \in bundles[a] \ block.technical : block.replay[s] # block.expected[s]}
  BY SettledFacts DEF Comparable
<1> QED  BY <1>4, <1>5

-------------------------------------------------------------------------------
(* The majority                                                            *)

LEMMA VoteCounts ==
  ASSUME NEW a, NEW s, NEW verdict
  PROVE  Cardinality(VotesFor(a, s, verdict)) \in Nat
<1>1. VotesFor(a, s, verdict) \subseteq Assignments
  BY DEF VotesFor
<1>2. IsFiniteSet(VotesFor(a, s, verdict))
  BY <1>1, Nonempty, FS_Subset
<1> QED  BY <1>2, FS_CardinalityType

(* Those of one job are counted alike.                                     *)
LEMMA OneMajority ==
  ASSUME NEW a, NEW b, J(a) = J(b), NEW s
  PROVE  MajorityOf(a, s) = MajorityOf(b, s)
<1>1. VotesFor(a, s, "pass") = VotesFor(b, s, "pass")
  BY DEF VotesFor
<1>2. VotesFor(a, s, "fail") = VotesFor(b, s, "fail")
  BY DEF VotesFor
<1> QED  BY <1>1, <1>2 DEF MajorityOf

LEMMA MatchedJust ==
  ASSUME ServiceInv
  PROVE  MajorityJust
<1> SUFFICES ASSUME phase = "settled", policy.settlement = "majority-match", NEW a \in Assignments
             PROVE
      /\ (Honest(a) /\ settled[a].status # "PASS") =>
           \E s \in Voted(a), verdict \in {"pass", "fail"} :
             /\ verdict # block.replay[s]
             /\ Cardinality(VotesFor(a, s, verdict)) >= Cardinality(VotesFor(a, s, block.replay[s]))
      /\ \A b \in Assignments :
           (J(a) = J(b) /\ settled[a].fee > 0 /\ settled[b].fee > 0) =>
             \A s \in Voted(a) \cap Voted(b) : reports[a][s] = reports[b][s] /\ reports[a][s] # "none"
  BY DEF MajorityJust
<1>1. \A b \in Assignments :
        /\ settled[b].status = Matched(b)
        /\ settled[b].fee = IF Matched(b) = "PASS" THEN Fee ELSE 0
  <2> SUFFICES ASSUME NEW b \in Assignments
               PROVE  /\ settled[b].status = Matched(b)
                      /\ settled[b].fee = IF Matched(b) = "PASS" THEN Fee ELSE 0
    OBVIOUS
  <2>1. settled[b] = Row(Matched(b), Fee, 0)
    BY SettledFacts DEF RowOf
  <2> QED  BY <2>1, RowFacts, AllocationAssumption
<1>2. Voted(a) # {} /\ Voted(a) \subseteq bundles[a]
  BY SettledFacts DEF Voted
<1>3. ASSUME Honest(a), settled[a].status # "PASS"
      PROVE  \E s \in Voted(a), verdict \in {"pass", "fail"} :
               /\ verdict # block.replay[s]
               /\ Cardinality(VotesFor(a, s, verdict))
                    >= Cardinality(VotesFor(a, s, block.replay[s]))
  <2>1. Matched(a) # "PASS" /\ Committed(a)
    BY <1>1, <1>3, HonestCommits
  <2>2. PICK s \in Voted(a) : reports[a][s] # MajorityOf(a, s)
    BY <1>2, <2>1 DEF Matched
  <2>3. reports[a][s] = block.replay[s] /\ block.replay[s] \in {"pass", "fail"}
    BY <1>2, <1>3, SettledFacts
  <2>4. Cardinality(VotesFor(a, s, "pass")) \in Nat /\ Cardinality(VotesFor(a, s, "fail")) \in Nat
    BY VoteCounts
  <2>5. CASE Cardinality(VotesFor(a, s, "pass")) >= Cardinality(VotesFor(a, s, "fail"))
    <3>1. block.replay[s] = "fail"
      BY <2>2, <2>3, <2>5 DEF MajorityOf
    <3> QED  BY <2>5, <3>1
  <2>6. CASE Cardinality(VotesFor(a, s, "fail")) > Cardinality(VotesFor(a, s, "pass"))
    <3>1. block.replay[s] = "pass"
      BY <2>2, <2>3, <2>4, <2>6 DEF MajorityOf
    <3>2. Cardinality(VotesFor(a, s, "fail")) >= Cardinality(VotesFor(a, s, block.replay[s]))
      BY <2>4, <2>6, <3>1
    <3> QED  BY <3>1, <3>2
  <2> QED  BY <2>4, <2>5, <2>6
<1>4. ASSUME NEW b \in Assignments, J(a) = J(b), settled[a].fee > 0, settled[b].fee > 0,
             NEW s \in Voted(a) \cap Voted(b)
      PROVE  reports[a][s] = reports[b][s] /\ reports[a][s] # "none"
  <2>1. Matched(a) = "PASS" /\ Matched(b) = "PASS"
    BY <1>1, <1>4
  <2>2. reports[a][s] = MajorityOf(a, s) /\ reports[b][s] = MajorityOf(b, s)
    BY <1>4, <2>1 DEF Matched
  <2>3. MajorityOf(a, s) = MajorityOf(b, s) /\ MajorityOf(a, s) # "none"
    BY <1>4, OneMajority DEF MajorityOf
  <2> QED  BY <2>2, <2>3
<1> QED  BY <1>3, <1>4

-------------------------------------------------------------------------------
(* The cost of a settlement                                                *)

LEMMA Expenditure ==
  ASSUME ServiceInv, phase = "settled"
  PROVE  OwnerExpenditure <= Fee * Cardinality(Assignments) + Reserve
<1>1. DOMAIN settled = Assignments
  <2>1. PICK a \in Assignments : TRUE
    BY Nonempty
  <2> QED  BY <2>1, SettledFacts
<1>2. \A a \in Assignments : Fees[a] \in Nat /\ Fees[a] <= Fee
  <2> SUFFICES ASSUME NEW a \in Assignments PROVE Fees[a] \in Nat /\ Fees[a] <= Fee
    OBVIOUS
  <2>1. Fee \in Nat /\ Bond \in Nat /\ 0 \in Nat
    BY AllocationAssumption
  <2>2. \/ RowOf(a) = Row(Adjudicated(a), 0, 0) \/ RowOf(a) = Row(Scored(a), Fee, Bond)
        \/ RowOf(a) = Row(Matched(a), Fee, 0)
    BY PolicyFacts DEF RowOf, ServiceInv
  <2>3. RowOf(a).fee \in Nat /\ RowOf(a).fee <= Fee
    BY <2>1, <2>2, RowFacts
  <2>4. Fees[a] = RowOf(a).fee
    BY <1>1, SettledFacts DEF Fees
  <2> QED  BY <2>3, <2>4
<1>3. SumOf(Fees, Assignments) \in Nat /\ SumOf(Fees, Assignments) <= Fee * Cardinality(Assignments)
  <2>1. Fee \in Nat
    BY AllocationAssumption
  <2> QED  BY <1>2, <2>1, Nonempty, SumBounded
<1>4. OwnerExpenditure = SumOf(Fees, Assignments) + Reserve
  BY <1>1 DEF OwnerExpenditure, SumOf
<1>5. Cardinality(Assignments) \in Nat /\ Fee \in Nat /\ Reserve \in Nat
  BY AllocationAssumption, Nonempty, FS_CardinalityType
<1>6. Fee * Cardinality(Assignments) \in Nat
  BY <1>5
<1> QED  BY <1>3, <1>4, <1>5, <1>6

(* No settlement turns on a verifier that replays: it fails only where the *)
(* device or as many votes differ, no one passes an adjudication with too  *)
(* many sentinels wrong, those paid by a vote agree, and the owner never   *)
(* pays more than the committee's fees and its reserve.                    *)
THEOREM SettlementJustAlways == Spec => []SettlementJust
<1>1. ServiceInv => SettlementJust
  BY AdjudicatedJust, ScoredJust, MatchedJust, Expenditure DEF SettlementJust
<1> QED  BY <1>1, Invariance, PTL


-------------------------------------------------------------------------------
(* The bank of replays.  What is cached of a segment stays as it was       *)
(* observed; what is read back is, row by row, a row of the block.         *)

Entries == [Positions -> [sentinel: BOOLEAN, expected: BOOLEAN]]
BankTypes ==
  /\ bankPhase \in {"new", "built", "characterizing", "characterized", "published", "frozen",
                    "raised"}
  /\ bankPhase # "new" => entries \in Entries
  /\ bankPhase = "new" => DOMAIN cache = {}

(* What is stored under a key is the observation the key names, of this    *)
(* device, and is required of its segment.                                 *)
Stored(k, p, plan) ==
  /\ k = CacheKey(p, plan, Here) /\ plan \in Required(entries[p].sentinel)
  /\ cache[k].proof = p /\ cache[k].plan = plan /\ cache[k].verdict \in BOOLEAN
CacheOK ==
  \A k \in DOMAIN cache : \E p \in Positions : \E plan \in Plans : Stored(k, p, plan)

Holds(p, plan) == CacheKey(p, plan, Here) \in DOMAIN cache
Complete(p) == \A plan \in Required(entries[p].sentinel) : Holds(p, plan)
TodoOK ==
  bankPhase = "characterizing" =>
    /\ todo \subseteq {item \in Positions \X Plans : item[2] \in Required(entries[item[1]].sentinel)}
    /\ \A p \in Positions : \A plan \in Required(entries[p].sentinel) :
         Holds(p, plan) \/ <<p, plan>> \in todo
CompleteOK ==
  bankPhase \in {"characterized", "published", "frozen"} => \A p \in Positions : Complete(p)
RowsOK == bankPhase = "published" => rows = {BankRow(p) : p \in Positions}

BankInv == BankTypes /\ CacheOK /\ TodoOK /\ CompleteOK /\ RowsOK /\ FrozenFaithful

LEMMA PlansAre ==
  /\ Canonical \in Plans /\ Rerun \in Plans /\ Canonical # Rerun /\ Here # Elsewhere
  /\ Required(TRUE) = Plans /\ Required(FALSE) = {Canonical} /\ Required(TRUE) # Required(FALSE)
  /\ \A s \in BOOLEAN : Canonical \in Required(s) /\ Required(s) \subseteq Plans
BY DEF Required, Plans, Canonical, Rerun, Here, Elsewhere

LEMMA KeysAre ==
  \A p, q, plan, pick, d, e :
    CacheKey(p, plan, d) = CacheKey(q, pick, e) => p = q /\ plan = pick /\ d = e
BY DEF CacheKey

(* The observations of a segment are those stored of it.                   *)
LEMMA ObservationsAre ==
  ASSUME CacheOK, NEW p \in Positions
  PROVE  /\ \A o \in ObservationsOf(p) :
              /\ o.key \in DOMAIN cache /\ o.key = CacheKey(p, o.plan, Here)
              /\ o.proof = p /\ o.plan \in Required(entries[p].sentinel)
              /\ o.verdict = cache[o.key].verdict /\ o.verdict \in BOOLEAN
              /\ o = [key |-> o.key, proof |-> p, plan |-> o.plan, verdict |-> o.verdict]
         /\ \A plan : Holds(p, plan) => \E o \in ObservationsOf(p) :
              o.plan = plan /\ o.key = CacheKey(p, plan, Here)
<1>1. ASSUME NEW o \in ObservationsOf(p)
      PROVE  /\ o.key \in DOMAIN cache /\ o.key = CacheKey(p, o.plan, Here)
             /\ o.proof = p /\ o.plan \in Required(entries[p].sentinel)
             /\ o.verdict = cache[o.key].verdict /\ o.verdict \in BOOLEAN
             /\ o = [key |-> o.key, proof |-> p, plan |-> o.plan, verdict |-> o.verdict]
  <2>1. PICK k \in DOMAIN cache :
          /\ cache[k].proof = p
          /\ o = [key |-> k, proof |-> p, plan |-> cache[k].plan, verdict |-> cache[k].verdict]
    BY DEF ObservationsOf
  <2>2. PICK q \in Positions, plan \in Plans : Stored(k, q, plan)
    BY DEF CacheOK
  <2> QED  BY <2>1, <2>2 DEF Stored
<1>2. ASSUME NEW plan, Holds(p, plan)
      PROVE  \E o \in ObservationsOf(p) : o.plan = plan /\ o.key = CacheKey(p, plan, Here)
  <2> DEFINE k == CacheKey(p, plan, Here)
             o == [key |-> k, proof |-> p, plan |-> cache[k].plan, verdict |-> cache[k].verdict]
  <2>1. k \in DOMAIN cache
    BY <1>2 DEF Holds
  <2>2. PICK q \in Positions, pick \in Plans : Stored(k, q, pick)
    BY <2>1 DEF CacheOK
  <2>3. q = p /\ pick = plan
    BY <2>2, KeysAre DEF Stored
  <2>4. cache[k].proof = p /\ cache[k].plan = plan
    BY <2>2, <2>3 DEF Stored
  <2>5. o \in ObservationsOf(p)
    BY <2>1, <2>4 DEF ObservationsOf
  <2> QED  BY <2>4, <2>5
<1> QED  BY <1>1, <1>2

LEMMA CompleteIs ==
  ASSUME CacheOK, NEW p \in Positions
  PROVE  /\ ~Incomplete(p) <=> Complete(p)
         /\ Complete(p) => PlansIn(ObservationsOf(p)) = Required(entries[p].sentinel)
<1>1. PlansIn(ObservationsOf(p)) \subseteq Required(entries[p].sentinel)
  BY ObservationsAre DEF PlansIn
<1>2. \A plan : plan \in PlansIn(ObservationsOf(p)) => Holds(p, plan)
  BY ObservationsAre DEF PlansIn, Holds
<1>3. \A plan : Holds(p, plan) => plan \in PlansIn(ObservationsOf(p))
  BY ObservationsAre DEF PlansIn
<1> QED  BY <1>1, <1>2, <1>3 DEF Incomplete, Complete

LEMMA BankStarts == BankInit => BankInv
BY DEF BankInit, BankInv, BankTypes, CacheOK, TodoOK, CompleteOK, RowsOK, FrozenFaithful

LEMMA BuildHolds == ASSUME BankInv, NEW trainerValid \in BOOLEAN, Build(trainerValid) PROVE BankInv'
<1>1. /\ bankPhase = "new" /\ bankPhase' = "built" /\ cache' = cache
      /\ \E production, genuine :
           entries' = [p \in Positions |-> [sentinel |-> p \notin production, expected |-> p \in genuine]]
  BY DEF Build
<1>2. entries' \in Entries
  BY <1>1 DEF Entries
<1>3. DOMAIN cache' = {}
  BY <1>1 DEF BankInv, BankTypes
<1> QED  BY <1>1, <1>2, <1>3 DEF BankInv, BankTypes, CacheOK, TodoOK, CompleteOK, RowsOK, FrozenFaithful

(* Observing stores at most the observation asked for, and it is there     *)
(* afterwards.                                                             *)
LEMMA ObservedHolds ==
  ASSUME BankTypes, CacheOK, bankPhase # "new", entries' = entries,
         NEW p \in Positions, NEW plan \in Required(entries[p].sentinel), Observed(p, plan)
  PROVE  /\ CacheOK' /\ CacheKey(p, plan, Here) \in DOMAIN cache'
         /\ DOMAIN cache \subseteq DOMAIN cache'
<1> DEFINE key == CacheKey(p, plan, Here)
<1>1. /\ entries \in Entries /\ entries[p].sentinel \in BOOLEAN /\ entries[p].expected \in BOOLEAN
      /\ plan \in Plans
  BY PlansAre DEF BankTypes, Entries
<1>2. CASE key \in DOMAIN cache
  <2>1. cache' = cache
    BY <1>2 DEF Observed
  <2> QED  BY <1>2, <2>1 DEF CacheOK, Stored
<1>3. CASE key \notin DOMAIN cache
  <2>1. PICK verdict \in Outcomes(p) :
          cache' = [k \in DOMAIN cache \cup {key} |->
                      IF k = key THEN [proof |-> p, plan |-> plan, verdict |-> verdict] ELSE cache[k]]
    BY <1>3 DEF Observed
  <2>2. verdict \in BOOLEAN
    BY <1>1 DEF Outcomes
  <2>3. /\ DOMAIN cache' = DOMAIN cache \cup {key}
        /\ cache'[key] = [proof |-> p, plan |-> plan, verdict |-> verdict]
        /\ \A k \in DOMAIN cache : cache'[k] = cache[k]
    BY <1>3, <2>1
  <2>4. Stored(key, p, plan)'
    BY <2>2, <2>3 DEF Stored
  <2>5. ASSUME NEW k \in DOMAIN cache
        PROVE  \E q \in Positions : \E pick \in Plans : Stored(k, q, pick)'
    BY <2>3, <2>5 DEF CacheOK, Stored
  <2>6. CacheOK'
    BY <1>1, <2>3, <2>4, <2>5 DEF CacheOK
  <2> QED  BY <2>3, <2>6
<1> QED  BY <1>2, <1>3

LEMMA UseHolds ==
  ASSUME BankInv, NEW p \in Positions, NEW plan \in Plans, Use(p, plan) PROVE BankInv'
<1>1. /\ bankPhase \in {"built", "characterized"} /\ (plan = Rerun => entries[p].sentinel)
      /\ Observed(p, plan) /\ entries' = entries /\ bankPhase' = bankPhase
  BY DEF Use
<1>2. plan \in Required(entries[p].sentinel)
  BY <1>1 DEF Required, Plans, BankInv, BankTypes, Entries
<1>3. CacheOK' /\ DOMAIN cache \subseteq DOMAIN cache'
  BY <1>1, <1>2, ObservedHolds DEF BankInv
<1>4. \A q \in Positions : Complete(q) => Complete(q)'
  BY <1>1, <1>3 DEF Complete, Holds
<1> QED  BY <1>1, <1>3, <1>4 DEF BankInv, BankTypes, TodoOK, CompleteOK, RowsOK, FrozenFaithful

LEMMA CharacterizeHolds == ASSUME BankInv, Characterize PROVE BankInv'
<1>1. /\ bankPhase = "built" /\ bankPhase' = "characterizing" /\ entries' = entries /\ cache' = cache
      /\ todo' = {item \in Positions \X Plans : item[2] \in Required(entries[item[1]].sentinel)}
  BY DEF Characterize
<1>2. CacheOK'
  BY <1>1 DEF BankInv, CacheOK, Stored
<1>3. \A p \in Positions : entries[p].sentinel \in BOOLEAN
  BY <1>1 DEF BankInv, BankTypes, Entries
<1>4. TodoOK'
  BY <1>1, <1>3, PlansAre DEF TodoOK
<1> QED  BY <1>1, <1>2, <1>4 DEF BankInv, BankTypes, CompleteOK, RowsOK, FrozenFaithful

LEMMA CharacterizeNextHolds == ASSUME BankInv, CharacterizeNext PROVE BankInv'
<1>1. PICK item \in todo : Observed(item[1], item[2]) /\ todo' = todo \ {item}
  BY DEF CharacterizeNext
<1>2. /\ bankPhase = "characterizing" /\ entries' = entries
      /\ bankPhase' = (IF todo' = {} THEN "characterized" ELSE bankPhase)
  BY DEF CharacterizeNext
<1> DEFINE p == item[1]
           plan == item[2]
<1>3. p \in Positions /\ plan \in Required(entries[p].sentinel) /\ item = <<p, plan>>
  BY <1>1, <1>2 DEF BankInv, TodoOK
<1>4. /\ CacheOK' /\ CacheKey(p, plan, Here) \in DOMAIN cache' /\ DOMAIN cache \subseteq DOMAIN cache'
  BY <1>1, <1>2, <1>3, ObservedHolds DEF BankInv
<1>5. \A q \in Positions : \A pick \in Required(entries[q].sentinel) :
        Holds(q, pick)' \/ <<q, pick>> \in todo'
  <2> SUFFICES ASSUME NEW q \in Positions, NEW pick \in Required(entries[q].sentinel)
               PROVE  Holds(q, pick)' \/ <<q, pick>> \in todo'
    OBVIOUS
  <2>1. Holds(q, pick) \/ <<q, pick>> \in todo
    BY <1>2 DEF BankInv, TodoOK
  <2>2. Holds(q, pick) => Holds(q, pick)'
    BY <1>4 DEF Holds
  <2>3. <<q, pick>> = item => Holds(q, pick)'
    <3>1. <<q, pick>> = <<p, plan>> => q = p /\ pick = plan
      OBVIOUS
    <3> QED  BY <1>3, <1>4, <3>1 DEF Holds
  <2>4. <<q, pick>> # item /\ <<q, pick>> \in todo => <<q, pick>> \in todo'
    BY <1>1
  <2> QED  BY <2>1, <2>2, <2>3, <2>4
<1>6. TodoOK'
  BY <1>1, <1>2, <1>5 DEF BankInv, TodoOK
<1>7. CompleteOK'
  BY <1>2, <1>5 DEF CompleteOK, Complete
<1> QED  BY <1>2, <1>4, <1>6, <1>7 DEF BankInv, BankTypes, RowsOK, FrozenFaithful

LEMMA PublishHolds == ASSUME BankInv, Publish PROVE BankInv'
<1>1. /\ bankPhase \in {"built", "characterized"} /\ entries' = entries /\ cache' = cache
      /\ \/ bankPhase' = "raised"
         \/ /\ bankPhase' = "published" /\ rows' = {BankRow(p) : p \in Positions}
            /\ \A p \in Positions : ~Incomplete(p)
  BY DEF Publish
<1>2. CacheOK'
  BY <1>1 DEF BankInv, CacheOK, Stored
<1>3. CompleteOK'
  BY <1>1, CompleteIs DEF BankInv, CompleteOK, Complete, Holds
<1>4. \A p : BankRow(p)' = BankRow(p)
  BY <1>1 DEF BankRow, ObservationsOf
<1>5. RowsOK'
  BY <1>1, <1>4 DEF RowsOK
<1> QED  BY <1>1, <1>2, <1>3, <1>5 DEF BankInv, BankTypes, TodoOK, FrozenFaithful

(* What can be read and is not refused: rows of the block in all that a    *)
(* replay is asked.                                                        *)
Genuine(r) ==
  /\ r.proof \in Positions /\ r.sentinel = entries[r.proof].sentinel
  /\ r.observations = ObservationsOf(r.proof)
RowRepeats(r) == \E o, u \in r.observations : o # u /\ o.key = u.key

LEMMA RowIs ==
  ASSUME NEW p \in Positions
  PROVE  /\ BankRow(p).source = p /\ BankRow(p).public = p /\ BankRow(p).truth = p /\ BankRow(p).proof = p
         /\ BankRow(p).payload = p /\ BankRow(p).sealed = p /\ BankRow(p).device = Here
         /\ BankRow(p).sentinel = entries[p].sentinel /\ BankRow(p).observations = ObservationsOf(p)
BY DEF BankRow

LEMMA DriftedIs ==
  ASSUME CacheOK, entries \in Entries, NEW a \in Positions, NEW b \in Positions, Complete(a), Complete(b),
         NEW r \in Drifted(BankRow(a), BankRow(b)), ~RowDrifts(r), ~RowRepeats(r)
  PROVE  Genuine(r)
<1> DEFINE q == BankRow(a)
           other == BankRow(b)
<1>1. /\ PlansIn(ObservationsOf(a)) = Required(entries[a].sentinel)
      /\ entries[a].sentinel \in BOOLEAN /\ entries[b].sentinel \in BOOLEAN
      /\ PlansIn(ObservationsOf(b)) = Required(entries[b].sentinel)
  BY CompleteIs DEF Entries
<1>2. /\ ObservationsOf(a) # {} /\ ObservationsOf(b) # {}
      /\ Required(entries[a].sentinel) # Required(~entries[a].sentinel)
  BY <1>1, PlansAre DEF PlansIn
<1>3. /\ r.device = Here /\ r.payload = r.proof /\ r.sealed = r.proof
      /\ \A o \in r.observations : o.proof = r.proof /\ o.key = CacheKey(r.proof, o.plan, Here)
      /\ PlansIn(r.observations) = Required(r.sentinel)
  BY DEF RowDrifts
<1>4. CASE r = [q EXCEPT !.device = Elsewhere]
  BY <1>3, <1>4, PlansAre DEF BankRow
<1>5. CASE r = [q EXCEPT !.sentinel = ~q.sentinel]
  <2>1. r.sentinel = ~entries[a].sentinel /\ r.observations = ObservationsOf(a)
    BY <1>5 DEF BankRow
  <2> QED  BY <1>1, <1>2, <1>3, <2>1
<1>6. CASE \/ r = [q EXCEPT !.public = other.public, !.payload = other.payload]
           \/ r = [q EXCEPT !.payload = other.payload]
           \/ r = [q EXCEPT !.sealed = other.sealed]
           \/ r = Moved(q, other)
  BY <1>6 DEF BankRow, Genuine, Moved
<1>7. CASE r = [q EXCEPT !.truth = other.truth, !.sealed = other.sealed, !.sentinel = other.sentinel]
  <2>1. r.sealed = b /\ r.proof = a /\ r.sentinel = entries[b].sentinel /\ r.observations = ObservationsOf(a)
    BY <1>7 DEF BankRow
  <2> QED  BY <1>3, <2>1 DEF Genuine
<1>8. CASE \/ r = [q EXCEPT !.observations = other.observations]
           \/ r = [q EXCEPT !.observations = q.observations \cup other.observations]
  <2>1. /\ r.proof = a /\ r.sentinel = entries[a].sentinel /\ ObservationsOf(b) \subseteq r.observations
        /\ r.observations \in {ObservationsOf(b), ObservationsOf(a) \cup ObservationsOf(b)}
    BY <1>8 DEF BankRow
  <2>2. a = b
    BY <1>2, <1>3, <2>1, ObservationsAre
  <2> QED  BY <2>1, <2>2 DEF Genuine
<1>9. CASE r = [q EXCEPT !.observations = {Foreign(o) : o \in q.observations}]
  <2>1. r.observations = {Foreign(o) : o \in ObservationsOf(a)}
    BY <1>9 DEF BankRow
  <2>2. PICK o \in ObservationsOf(a) : TRUE
    BY <1>2
  <2>3. Foreign(o).key = CacheKey(o.proof, o.plan, Elsewhere)
    <3>1. o = [key |-> o.key, proof |-> a, plan |-> o.plan, verdict |-> o.verdict]
      BY ObservationsAre
    <3> HIDE DEF CacheKey
    <3> QED  BY <3>1 DEF Foreign
  <2>4. Foreign(o).key = CacheKey(r.proof, Foreign(o).plan, Here)
    BY <1>3, <2>1
  <2>5. Elsewhere = Here
    BY <2>3, <2>4 DEF CacheKey
  <2> QED  BY <2>5, PlansAre
<1>10. CASE r = [q EXCEPT !.observations = q.observations \cup {[o EXCEPT !.verdict = ~o.verdict] : o \in q.observations}]
  <2>1. r.observations = ObservationsOf(a) \cup {[o EXCEPT !.verdict = ~o.verdict] : o \in ObservationsOf(a)}
    BY <1>10 DEF BankRow
  <2>2. PICK o \in ObservationsOf(a) : TRUE
    BY <1>2
  <2> DEFINE u == [o EXCEPT !.verdict = ~o.verdict]
  <2>3. /\ o = [key |-> o.key, proof |-> a, plan |-> o.plan, verdict |-> o.verdict]
        /\ o.verdict \in BOOLEAN
    BY ObservationsAre
  <2>4. u.key = o.key /\ u.verdict = ~o.verdict
    BY <2>3
  <2>5. u # o
    BY <2>3, <2>4
  <2>6. o \in r.observations /\ u \in r.observations
    BY <2>1
  <2> QED  BY <2>4, <2>5, <2>6 DEF RowRepeats
<1>11. ASSUME NEW o \in q.observations, r = [q EXCEPT !.observations = q.observations \ {o}]
       PROVE  Genuine(r)
  <2>1. /\ r.observations = ObservationsOf(a) \ {o} /\ r.sentinel = entries[a].sentinel
        /\ o \in ObservationsOf(a)
    BY <1>11 DEF BankRow
  <2>2. \A u \in ObservationsOf(a) : u.plan = o.plan => u = o
    BY <2>1, ObservationsAre
  <2>3. o.plan \notin PlansIn(r.observations)
    BY <2>1, <2>2 DEF PlansIn
  <2>4. o.plan \in Required(r.sentinel)
    BY <2>1, ObservationsAre
  <2> QED  BY <1>3, <2>3, <2>4
<1> QED
  BY <1>4, <1>5, <1>6, <1>7, <1>8, <1>9, <1>10, <1>11 DEF Drifted

LEMMA ReadHolds == ASSUME BankInv, NEW read \in Readable, Read(read) PROVE BankInv'
<1>1. bankPhase = "published" /\ entries' = entries /\ cache' = cache
  BY DEF Read
<1>2. /\ rows = {BankRow(p) : p \in Positions} /\ CacheOK /\ entries \in Entries
      /\ \A p \in Positions : Complete(p)
  BY <1>1 DEF BankInv, BankTypes, RowsOK, CompleteOK
<1>3. CacheOK'
  BY <1>1 DEF BankInv, CacheOK, Stored
<1>4. \A p \in Positions : Complete(p)'
  BY <1>1, <1>2 DEF Complete, Holds
<1>5. CASE bankPhase' = "raised"
  BY <1>1, <1>3, <1>5 DEF BankInv, BankTypes, TodoOK, CompleteOK, RowsOK, FrozenFaithful
<1>6. CASE bankPhase' # "raised"
  <2> DEFINE all == UNION {r.observations : r \in read}
  <2>1. /\ ~ReadRefused(read) /\ bankPhase' = "frozen"
        /\ frozen' = [proofs |-> {r.proof : r \in read},
                      sentinels |-> {r.proof : r \in {q \in read : q.sentinel}},
                      cache |-> [k \in {o.key : o \in all} |-> (CHOOSE o \in all : o.key = k).verdict]]
    BY <1>6 DEF Read
  <2>2. ASSUME NEW r \in read
        PROVE  \/ r \in rows
               \/ \E a, b \in Positions : r \in Drifted(BankRow(a), BankRow(b))
    <3>1. ASSUME read \in {rows} \cup {rows \ {q} : q \in rows} PROVE r \in rows
      BY <3>1
    <3>2. ASSUME NEW q \in rows, NEW other \in rows, read \in Exchanged(q, other)
          PROVE  r \in rows \/ r \in Drifted(q, other)
      <4>1. Moved(q, other) \in Drifted(q, other)
        BY DEF Drifted
      <4>2. CASE read = rows \cup {Moved(q, other)}
        <5>1. r \in rows \/ r = Moved(q, other)
          BY <4>2
        <5> QED  BY <4>1, <5>1
      <4>3. ASSUME NEW changed \in Drifted(q, other), read = (rows \ {q}) \cup {changed}
            PROVE  r \in rows \/ r \in Drifted(q, other)
        <5>1. r \in rows \/ r = changed
          BY <4>3
        <5> QED  BY <5>1
      <4> QED  BY <3>2, <4>2, <4>3 DEF Exchanged
    <3>3. ASSUME read \in UNION {UNION {Exchanged(q, other) : other \in rows} : q \in rows}
          PROVE  r \in rows \/ \E x, y \in rows : r \in Drifted(x, y)
      <4>1. \E q \in rows : \E other \in rows : read \in Exchanged(q, other)
        BY <3>3
      <4>2. \A q \in rows : \A other \in rows :
              read \in Exchanged(q, other) => r \in rows \/ r \in Drifted(q, other)
        BY <3>2
      <4> QED  BY <3>3, <4>1, <4>2, Zenon
    <3>4. \/ read \in {rows} \cup {rows \ {q} : q \in rows}
          \/ read \in UNION {UNION {Exchanged(q, other) : other \in rows} : q \in rows}
      BY Zenon DEF Readable
    <3>5. r \in rows \/ \E x, y \in rows : r \in Drifted(x, y)
      BY <3>1, <3>3, <3>4
    <3> QED  BY <1>2, <3>5
  <2>3. ASSUME NEW r \in read PROVE Genuine(r)
    <3>1. ~RowDrifts(r) /\ ~RowRepeats(r)
      BY <2>1 DEF ReadRefused, RowRepeats
    <3>2. CASE r \in rows
      BY <1>2, <3>2, RowIs DEF Genuine
    <3>3. ASSUME NEW a \in Positions, NEW b \in Positions, r \in Drifted(BankRow(a), BankRow(b))
          PROVE  Genuine(r)
      BY <1>2, <3>1, <3>3, DriftedIs
    <3> QED  BY <2>2, <3>2, <3>3
  <2>4. ASSUME NEW o \in all PROVE o.key \in DOMAIN cache /\ o.verdict = cache[o.key].verdict
    <3>1. PICK r \in read : o \in r.observations
      OBVIOUS
    <3>2. r.proof \in Positions /\ o \in ObservationsOf(r.proof)
      BY <2>3, <3>1 DEF Genuine
    <3> QED  BY <1>2, <3>2, ObservationsAre
  <2>5. frozen'.proofs = {r.proof : r \in read}
    BY <2>1
  <2>6. frozen'.sentinels = {p \in frozen'.proofs : entries[p].sentinel}
    <3>1. frozen'.sentinels = {r.proof : r \in {q \in read : q.sentinel}}
      BY <2>1
    <3> QED  BY <2>3, <2>5, <3>1 DEF Genuine
  <2>7. ASSUME NEW p \in frozen'.proofs, NEW plan \in Required(p \in frozen'.sentinels)
        PROVE  /\ CacheKey(p, plan, Here) \in DOMAIN frozen'.cache
               /\ frozen'.cache[CacheKey(p, plan, Here)] = cache[CacheKey(p, plan, Here)].verdict
    <3> DEFINE k == CacheKey(p, plan, Here)
    <3>1. PICK r \in read : r.proof = p
      BY <2>5
    <3>2. p \in Positions /\ r.observations = ObservationsOf(p)
      BY <2>3, <3>1 DEF Genuine
    <3>3. (p \in frozen'.sentinels) = entries[p].sentinel
      BY <2>6, <3>2, <1>2 DEF Entries
    <3>4. Holds(p, plan)
      BY <1>2, <2>7, <3>2, <3>3 DEF Complete
    <3>5. PICK o \in ObservationsOf(p) : o.key = k
      BY <1>2, <3>2, <3>4, ObservationsAre
    <3>6. o \in all
      BY <3>2
    <3>7. (CHOOSE u \in all : u.key = k) \in all /\ (CHOOSE u \in all : u.key = k).key = k
      BY <3>5, <3>6
    <3>8. (CHOOSE u \in all : u.key = k).verdict = cache[k].verdict
      BY <2>4, <3>7
    <3>9. frozen'.cache = [j \in {u.key : u \in all} |-> (CHOOSE u \in all : u.key = j).verdict]
      BY <2>1
    <3>10. k \in {u.key : u \in all}
      BY <3>5, <3>6
    <3> HIDE DEF all, k
    <3>11. k \in DOMAIN frozen'.cache /\ frozen'.cache[k] = cache[k].verdict
      BY <3>8, <3>9, <3>10
    <3> QED  BY <3>11 DEF k
  <2>8. FrozenFaithful'
    BY <1>1, <2>6, <2>7 DEF FrozenFaithful
  <2> QED  BY <1>1, <1>3, <1>4, <2>1, <2>8 DEF BankInv, BankTypes, TodoOK, CompleteOK, RowsOK
<1> QED  BY <1>5, <1>6

(* A bank is faithful whatever its device did and whatever was exchanged   *)
(* in the rows it is read from, for any number of segments.                *)
THEOREM BankFaithfulAlways == BankSpec => []BankFaithful
<1>1. BankInv /\ [BankNext]_bank => BankInv'
  <2> SUFFICES ASSUME BankInv, [BankNext]_bank PROVE BankInv'
    OBVIOUS
  <2>1. ASSUME NEW trainerValid \in BOOLEAN, Build(trainerValid) PROVE BankInv'
    BY <2>1, BuildHolds
  <2>2. ASSUME NEW p \in Positions, NEW plan \in Plans, Use(p, plan) PROVE BankInv'
    BY <2>2, UseHolds
  <2>3. CASE Characterize \/ CharacterizeNext \/ Publish
    BY <2>3, CharacterizeHolds, CharacterizeNextHolds, PublishHolds
  <2>4. ASSUME NEW read \in Readable, Read(read) PROVE BankInv'
    BY <2>4, ReadHolds
  <2>5. CASE UNCHANGED bank
    <3>1. /\ entries' = entries /\ cache' = cache /\ todo' = todo /\ rows' = rows
          /\ frozen' = frozen /\ bankPhase' = bankPhase
      BY <2>5 DEF bank
    <3>2. CacheOK'
      BY <3>1 DEF BankInv, CacheOK, Stored
    <3>3. TodoOK' /\ CompleteOK'
      BY <3>1 DEF BankInv, TodoOK, CompleteOK, Complete, Holds
    <3>4. \A p : BankRow(p)' = BankRow(p)
      BY <3>1 DEF BankRow, ObservationsOf
    <3>5. BankTypes' /\ RowsOK' /\ FrozenFaithful'
      BY <3>1, <3>4 DEF BankInv, BankTypes, RowsOK, FrozenFaithful
    <3> QED  BY <3>2, <3>3, <3>5 DEF BankInv
  <2> QED  BY <2>1, <2>2, <2>3, <2>4, <2>5 DEF BankNext
<1>2. BankInv => BankFaithful
  BY CompleteIs DEF BankInv, CompleteOK, BankFaithful, CharacterizedIsPublishable
<1> QED  BY BankStarts, <1>1, <1>2, PTL DEF BankSpec

-------------------------------------------------------------------------------
(* What an audit finds                                                     *)

(* The population, and what each policy audits of it.                      *)
LEMMA Population ==
  /\ IsFiniteSet(Produced) /\ IsFiniteSet(Probes) /\ Probes # {}
  /\ Cardinality(Produced) \in Nat /\ Cardinality(Probes) \in Nat
  /\ ProbeThreshold \in Nat \ {0} /\ ProbeThreshold <= Cardinality(Probes)
  /\ FewAudited \in Nat \ {0} /\ FewAudited <= Cardinality(Produced)
  /\ AuditFee \in Nat /\ AuditBond \in Nat
<1>1. IsFiniteSet(Produced) /\ IsFiniteSet(Probes)
  BY AuditAssumption
<1>2. Cardinality(Produced) \in Nat /\ Cardinality(Probes) \in Nat
  BY <1>1, FS_CardinalityType
<1>3. ProbeThreshold \in Nat \ {0} /\ ProbeThreshold <= Cardinality(Probes)
      /\ FewAudited \in Nat \ {0} /\ FewAudited <= Cardinality(Produced)
  BY <1>2, AuditAssumption
<1>4. Probes # {}
  BY <1>3, FS_EmptySet
<1> QED  BY <1>1, <1>2, <1>3, <1>4, AuditAssumption

LEMMA PoliciesAudit ==
  ASSUME NEW key \in DOMAIN ADMISSION_POLICIES
  PROVE  LET chosen == ADMISSION_POLICIES[key]
         IN  /\ chosen.count \in 0..Cardinality(Produced)
             /\ chosen.count = 0 => chosen.probes
<1>1. ADMISSION_POLICIES[key] = [probes |-> key \in ProbedPolicies, count |-> AuditCount(key)]
  BY DEF ADMISSION_POLICIES
<1>2. key \in ProbedPolicies \cup AuditOnlyPolicies
  BY DEF ADMISSION_POLICIES
<1>3. AuditCount(key) \in 0..Cardinality(Produced)
  BY Population DEF AuditCount
<1>4. AuditCount(key) = 0 => key \in ProbedPolicies
  <2>1. Cardinality(Produced) # 0
    BY Population
  <2> QED  BY <2>1, <1>2, Population DEF AuditCount, ProbedPolicies, AuditOnlyPolicies
<1>5. PICK probed : /\ ADMISSION_POLICIES[key] = [probes |-> probed, count |-> AuditCount(key)]
                    /\ key \in ProbedPolicies => probed = TRUE
  <2>1. key \in ProbedPolicies => (key \in ProbedPolicies) = TRUE
    OBVIOUS
  <2> QED  BY <1>1, <2>1, Zenon
<1>6. ADMISSION_POLICIES[key].count = AuditCount(key)
      /\ ADMISSION_POLICIES[key].probes = probed
  BY <1>5
<1>7. key \in ProbedPolicies => ADMISSION_POLICIES[key].probes
  BY <1>5, <1>6, Zenon
<1>8. AuditCount(key) = 0 => ADMISSION_POLICIES[key].probes
  BY <1>4, <1>7, Zenon
<1>9. ADMISSION_POLICIES[key].count \in 0..Cardinality(Produced)
  BY <1>3, <1>6, Zenon
<1>10. ADMISSION_POLICIES[key].count = 0 => ADMISSION_POLICIES[key].probes
  BY <1>6, <1>8, Zenon
<1> QED  BY <1>9, <1>10, Zenon

(* When a sample, and when the probes, do not pass a report.               *)
LEMMA SampleStatus ==
  ASSUME NEW verdicts, NEW S \in SUBSET Produced
  PROVE  /\ StatusOver(S, verdicts, 1) = "PASS" <=> S # {} /\ S \cap Forged(verdicts) = {}
         /\ StatusOver(S, verdicts, 1) = "FAIL_CONFIRMED" => S \cap Forged(verdicts) # {}
<1>1. Misreported(verdicts, S) = S \cap Forged(verdicts)
  BY DEF Misreported, Forged
<1>2. IsFiniteSet(S \cap Forged(verdicts))
  BY Population, FS_Subset
<1>3. Cardinality(S \cap Forged(verdicts)) \in Nat
      /\ (Cardinality(S \cap Forged(verdicts)) = 0 <=> S \cap Forged(verdicts) = {})
  BY <1>2, FS_CardinalityType, FS_EmptySet
<1>4. Cardinality(S \cap Forged(verdicts)) >= 1 <=> S \cap Forged(verdicts) # {}
  BY <1>3
<1> QED  BY <1>1, <1>4 DEF StatusOver

LEMMA ProbeStatus ==
  ASSUME NEW verdicts
  PROVE  /\ StatusOver(Probes, verdicts, ProbeThreshold) = "PASS"
              <=> ~(Cardinality(Misreported(verdicts, Probes)) >= ProbeThreshold)
         /\ StatusOver(Probes, verdicts, ProbeThreshold) = "FAIL_CONFIRMED"
              => Cardinality(Misreported(verdicts, Probes)) >= ProbeThreshold
<1> QED  BY Population DEF StatusOver

(* How many samples fail a report: by inclusion, as a sample hits unless   *)
(* it is one of the tasks that were answered rightly.                      *)
LEMMA HittingCounted ==
  ASSUME NEW verdicts, NEW n \in 0..Cardinality(Produced),
         NEW Hit, Hit = {S \in SamplesOf(Produced, n) : S \cap Forged(verdicts) # {}}
  PROVE  Cardinality(Hit) = SamplesHitting(Cardinality(Produced), Cardinality(Forged(verdicts)), n)
<1> DEFINE All == kSubset(n, Produced)
           F == Forged(verdicts)
           q == Cardinality(Produced)
           f == Cardinality(Forged(verdicts))
           R == Produced \ F
           Missed == kSubset(n, R)
<1>0. All = {S \in SUBSET Produced : Cardinality(S) = n} /\ Missed = {S \in SUBSET R : Cardinality(S) = n}
  BY DEF kSubset
<1>1. Hit = {S \in All : S \cap F # {}}
  BY DEF SamplesOf
<1>2. F \subseteq Produced
  BY DEF Forged, Misreported
<1>3. IsFiniteSet(Produced) /\ q \in Nat /\ IsFiniteSet(F) /\ f \in Nat
  BY <1>2, Population, FS_Subset, FS_CardinalityType
<1>4. f = 0 <=> F = {}
  BY <1>3, FS_EmptySet
<1>5. IsFiniteSet(R) /\ Cardinality(R) = q - f
  <2>1. IsFiniteSet(R) /\ Cardinality(R) = q - Cardinality(Produced \cap F)
    BY <1>3, FS_Difference
  <2>2. Produced \cap F = F
    BY <1>2
  <2> QED  BY <2>1, <2>2
<1>6. q - f \in Nat
  BY <1>5, FS_CardinalityType
<1>7. Cardinality(All) = choose(q, n) /\ IsFiniteSet(All) /\ Cardinality(All) \in Nat
  BY <1>3, ChooseCounts
<1>8. CASE F = {} \/ n = 0
  <2>1. Hit = {}
    <3>1. CASE F = {}
      BY <3>1, <1>1
    <3>2. CASE n = 0
      <4>1. \A S \in All : S = {}
        <5> SUFFICES ASSUME NEW S \in All PROVE S = {}
          OBVIOUS
        <5>1. IsFiniteSet(S) /\ Cardinality(S) = 0
          BY <1>0, <1>3, <3>2, FS_Subset
        <5> QED  BY <5>1, FS_EmptySet
      <4> QED  BY <4>1, <1>1
    <3> QED  BY <1>8, <3>1, <3>2
  <2>2. f = 0 \/ n = 0
    BY <1>8, <1>4
  <2>3. Cardinality(Hit) = 0
    BY <2>1, FS_EmptySet
  <2> QED  BY <2>2, <2>3 DEF SamplesHitting
<1>9. CASE F # {} /\ n # 0 /\ n > q - f
  <2>1. Hit = All
    <3> SUFFICES ASSUME NEW S \in All, S \cap F = {} PROVE FALSE
      BY <1>1
    <3>1. S \subseteq R /\ Cardinality(S) = n
      BY <1>0
    <3>2. Cardinality(S) <= Cardinality(R)
      BY <3>1, <1>5, FS_Subset
    <3> QED  BY <3>1, <3>2, <1>5, <1>6, <1>9
  <2> QED  BY <2>1, <1>7, <1>9, <1>4 DEF SamplesHitting
<1>10. CASE F # {} /\ n # 0 /\ ~(n > q - f)
  <2>1. Missed \subseteq All
    BY <1>0
  <2>2. Hit = All \ Missed
    <3>1. \A S \in All : S \cap F = {} <=> S \subseteq R
      BY <1>0
    <3>2. \A S \in All : S \subseteq R <=> S \in Missed
      BY <1>0
    <3> HIDE DEF All, Missed, F, R
    <3> QED  BY <3>1, <3>2, <1>1
  <2>3. n \in 0..Cardinality(R)
    BY <1>10, <1>5, <1>6
  <2>4. Cardinality(Missed) = choose(Cardinality(R), n) /\ IsFiniteSet(Missed) /\ Cardinality(Missed) \in Nat
    BY <2>3, <1>5, ChooseCounts
  <2>5. Cardinality(All \ Missed) = Cardinality(All) - Cardinality(All \cap Missed)
    BY <1>7, FS_Difference
  <2>6. All \cap Missed = Missed
    BY <2>1
  <2>7. Cardinality(Hit) = choose(q, n) - choose(q - f, n)
    BY <2>2, <2>4, <2>5, <2>6, <1>7, <1>5
  <2> QED  BY <2>7, <1>10, <1>4 DEF SamplesHitting
<1> QED  BY <1>8, <1>9, <1>10

(* Every receipt of a report on the tasks of the policy.                   *)
LEMMA ReceiptsExact ==
  ASSUME NEW key \in DOMAIN ADMISSION_POLICIES, NEW verdicts,
         DOMAIN verdicts = delivered_policy_tasks(key),
         NEW selected \in SamplesOf(Produced, ADMISSION_POLICIES[key].count)
  PROVE  ReceiptExact(Receipt(key, verdicts, selected), verdicts)
<1> DEFINE row == Receipt(key, verdicts, selected)
           chosen == ADMISSION_POLICIES[key]
           n == chosen.count
           q == Cardinality(Produced)
           All == SamplesOf(Produced, n)
           F == Forged(verdicts)
           wrong == Misprobed(chosen, verdicts)
           probed == StatusOver(Probes, verdicts, ProbeThreshold)
           Fails == FailingSamples(chosen, verdicts)
<1>1. n \in 0..q /\ (n = 0 => chosen.probes)
  BY PoliciesAudit
<1>2. \A S \in All : S \subseteq Produced /\ Cardinality(S) = n
  BY DEF SamplesOf, kSubset
<1>3. n # 0 => \A S \in All : S # {}
  BY <1>1, <1>2, FS_EmptySet
<1>4. wrong <=> chosen.probes /\ probed # "PASS"
  BY ProbeStatus DEF Misprobed
<1>5. \A S : StatusOf(verdicts, chosen, S) =
               IF n = 0 \/ wrong THEN probed ELSE StatusOver(S, verdicts, 1)
  BY <1>4 DEF StatusOf
<1>6. n = 0 /\ ~wrong => probed = "PASS"
  BY <1>1, <1>4
<1>7. \A S \in All : StatusOf(verdicts, chosen, S) # "PASS" <=> wrong \/ S \cap F # {}
  <2> SUFFICES ASSUME NEW S \in All
               PROVE  StatusOf(verdicts, chosen, S) # "PASS" <=> wrong \/ S \cap F # {}
    OBVIOUS
  <2>1. CASE wrong
    BY <2>1, <1>4, <1>5
  <2>2. CASE ~wrong /\ n = 0
    <3>1. IsFiniteSet(S) /\ Cardinality(S) = 0
      BY <2>2, <1>2, Population, FS_Subset
    <3>2. S = {}
      BY <3>1, FS_EmptySet
    <3> QED  BY <3>2, <2>2, <1>5, <1>6
  <2>3. CASE ~wrong /\ n # 0
    <3>1. S # {} /\ S \subseteq Produced
      BY <2>3, <1>2, <1>3
    <3>2. StatusOver(S, verdicts, 1) = "PASS" <=> S # {} /\ S \cap F = {}
      BY <3>1, SampleStatus
    <3> QED  BY <3>1, <3>2, <2>3, <1>5
  <2> QED  BY <2>1, <2>2, <2>3
<1>8. Cardinality(Fails) = IF wrong THEN choose(q, n) ELSE SamplesHitting(q, Cardinality(F), n)
  <2>1. CASE wrong
    <3>1. Fails = All
      BY <2>1, <1>7 DEF FailingSamples
    <3>2. Cardinality(kSubset(n, Produced)) = choose(q, n)
      BY <1>1, Population, ChooseCounts
    <3> QED  BY <3>1, <3>2, <2>1 DEF SamplesOf
  <2>2. CASE ~wrong
    <3>1. Fails = {S \in SamplesOf(Produced, n) : S \cap Forged(verdicts) # {}}
      BY <2>2, <1>7 DEF FailingSamples
    <3>2. Cardinality(Fails) = SamplesHitting(q, Cardinality(F), n)
      BY <3>1, <1>1, HittingCounted
    <3> QED  BY <3>2, <2>2
  <2> QED  BY <2>1, <2>2
<1>9. /\ row.policy = key /\ row.selected = selected
      /\ row.status = StatusOf(verdicts, chosen, selected)
      /\ row.fee = IF row.status = "PASS" THEN AuditFee ELSE 0
      /\ row.slashed = IF row.status = "FAIL_CONFIRMED" THEN AuditBond ELSE 0
  BY DEF Receipt
<1>10. DOMAIN verdicts = IF chosen.probes THEN Tasks ELSE Produced
  BY DEF delivered_policy_tasks
<1>11. row.status # "PASS" <=> row.selected \in Fails
  BY <1>9 DEF FailingSamples
<1>12. row.slashed > 0 => wrong \/ row.selected \cap F # {}
  BY <1>9, <1>7
<1>13. row.fee > 0 => ~wrong /\ row.selected \cap F = {}
  BY <1>9, <1>7
<1>14. ADMISSION_POLICIES[row.policy] = chosen
  BY <1>9
<1> HIDE DEF row, chosen
<1>15. ReceiptExact(row, verdicts)
  BY <1>8, <1>10, <1>11, <1>12, <1>13, <1>14, Zenon DEF ReceiptExact
<1> QED  BY <1>15 DEF row

-------------------------------------------------------------------------------
(* The inductive invariant of the audit                                   *)

TranscriptTypes ==
  transcript \in [state : 0..9, trainer : Values \cup {Unset}, report : Values \cup {Unset},
                  nonce : Values \cup {Unset}, selected : SUBSET Produced]

(* What a transcript holds at each of its states.                          *)
CommittedBeforeNonce ==
  /\ transcript.state >= 3 => transcript.trainer # Unset
  /\ transcript.state >= 5 => transcript.report # Unset
  /\ transcript.nonce # Unset => transcript.state >= 6

(* One receipt for a challenge that was opened, none for another.          *)
OpenedOnce ==
  /\ challenge # "used" => settlements = <<>>
  /\ challenge = "used" =>
       \E key \in DOMAIN ADMISSION_POLICIES :
       \E selected \in SamplesOf(Produced, ADMISSION_POLICIES[key].count) :
         /\ DOMAIN assignment.verdicts = delivered_policy_tasks(key)
         /\ settlements = <<Receipt(key, assignment.verdicts, selected)>>

AuditInv == TranscriptTypes /\ CommittedBeforeNonce /\ OpenedOnce

LEMMA ProtocolStates ==
  /\ Len(PROTOCOL_STATES) = 9
  /\ PROTOCOL_STATES[1] = "TERMS_PUBLISHED" /\ PROTOCOL_STATES[2] = "TRAINER_ALLOCATED"
  /\ PROTOCOL_STATES[3] = "TRAJECTORY_COMMITTED" /\ PROTOCOL_STATES[4] = "REPLAY_ASSIGNED"
  /\ PROTOCOL_STATES[5] = "REPORT_COMMITTED"
  /\ PROTOCOL_STATES[6] = "OWNER_RANDOMNESS_REVEALED"
  /\ PROTOCOL_STATES[7] = "PRODUCTION_AUDIT_SELECTED"
  /\ PROTOCOL_STATES[8] = "REPORT_REVEALED" /\ PROTOCOL_STATES[9] = "SETTLED_OR_DEFERRED"
<1> QED  BY DEF PROTOCOL_STATES

(* The state from which a target is next.                                  *)
LEMMA NextIs ==
  ASSUME TranscriptTypes, NEW target, IsNext(target)
  PROVE  /\ transcript.state \in 0..8
         /\ target = "TRAJECTORY_COMMITTED" <=> transcript.state = 2
         /\ target = "REPORT_COMMITTED" <=> transcript.state = 4
         /\ target = "OWNER_RANDOMNESS_REVEALED" <=> transcript.state = 5
         /\ target = "PRODUCTION_AUDIT_SELECTED" <=> transcript.state = 6
<1>1. transcript.state \in 0..9
  BY DEF TranscriptTypes
<1>2. transcript.state \in 0..8 /\ target = PROTOCOL_STATES[transcript.state + 1]
  BY <1>1, ProtocolStates DEF IsNext
<1>3. transcript.state + 1 \in {1, 2, 3, 4, 5, 6, 7, 8, 9}
  BY <1>2
<1> DEFINE k == transcript.state + 1
<1>4. /\ PROTOCOL_STATES[k] = "TRAJECTORY_COMMITTED" <=> k = 3
      /\ PROTOCOL_STATES[k] = "REPORT_COMMITTED" <=> k = 5
      /\ PROTOCOL_STATES[k] = "OWNER_RANDOMNESS_REVEALED" <=> k = 6
      /\ PROTOCOL_STATES[k] = "PRODUCTION_AUDIT_SELECTED" <=> k = 7
  BY <1>3, ProtocolStates
<1> QED  BY <1>2, <1>4

LEMMA StateIs ==
  ASSUME TranscriptTypes,
         State \in {"PRODUCTION_AUDIT_SELECTED", "REPORT_REVEALED", "SETTLED_OR_DEFERRED"}
  PROVE  transcript.state >= 7
<1>1. transcript.state \in 0..9
  BY DEF TranscriptTypes
<1>2. transcript.state \in {0, 1, 2, 3, 4, 5, 6, 7, 8, 9}
  BY <1>1
<1> QED  BY <1>2, ProtocolStates DEF State

(* One step of the transcript: what it keeps, and what binds it.           *)
LEMMA FieldsBind ==
  ASSUME TranscriptTypes, CommittedBeforeNonce, transcript'.state \in Nat,
         transcript'.state \in {transcript.state, transcript.state + 1},
         transcript'.trainer # transcript.trainer =>
           transcript.state = 2 /\ (transcript'.state = 3 => transcript'.trainer # Unset),
         transcript'.report # transcript.report =>
           transcript.state = 4 /\ (transcript'.state = 5 => transcript'.report # Unset),
         transcript'.nonce # transcript.nonce =>
           transcript.state = 5 /\ (transcript'.state = 5 => transcript'.nonce = Unset),
         transcript.state = 2 /\ transcript'.state = 3 => transcript'.trainer # Unset,
         transcript.state = 4 /\ transcript'.state = 5 => transcript'.report # Unset,
         transcript'.selected # transcript.selected => transcript.state = 6
  PROVE  CommittedBeforeNonce' /\ TranscriptBinds
<1>1. transcript.state \in Nat
  BY DEF TranscriptTypes
<1>2. State \in {"PRODUCTION_AUDIT_SELECTED", "REPORT_REVEALED", "SETTLED_OR_DEFERRED"}
        => transcript.state >= 7
  BY StateIs
<1>3. CommittedBeforeNonce'
  BY <1>1 DEF CommittedBeforeNonce
<1>4. transcript.nonce # Unset =>
        /\ transcript.trainer # Unset /\ transcript.report # Unset
        /\ transcript'.trainer = transcript.trainer /\ transcript'.report = transcript.report
  BY <1>1 DEF CommittedBeforeNonce
<1>5. transcript.state >= 7 =>
        transcript'.nonce = transcript.nonce /\ transcript'.selected = transcript.selected
  BY <1>1
<1> QED  BY <1>2, <1>3, <1>4, <1>5 DEF TranscriptBinds

LEMMA AdvanceBinds ==
  ASSUME TranscriptTypes, CommittedBeforeNonce, NEW target, IsNext(target),
         NEW value \in Values \cup {Unset}, NEW count, AdvanceTo(target, value, count)
  PROVE  TranscriptTypes' /\ CommittedBeforeNonce' /\ TranscriptBinds
<1> DEFINE st == transcript.state
           next == Accepted(value)
<1>0. /\ st \in 0..8
      /\ target = "TRAJECTORY_COMMITTED" <=> st = 2
      /\ target = "REPORT_COMMITTED" <=> st = 4
      /\ target = "OWNER_RANDOMNESS_REVEALED" <=> st = 5
      /\ target = "PRODUCTION_AUDIT_SELECTED" <=> st = 6
  BY NextIs
<1>1. st + 1 \in 0..9 /\ st + 1 \in Nat /\ st \in Nat
  BY <1>0
<1>2. next \in 0..9 /\ next \in Nat /\ next \in {st, st + 1}
      /\ (next = st + 1 => value # Unset) /\ (next = st => value = Unset)
  <2>1. next = IF value = Unset THEN st ELSE st + 1
    BY DEF Accepted
  <2> HIDE DEF next, st
  <2> QED  BY <2>1, <1>0, <1>1
<1> HIDE DEF next
<1>3. CASE Bare(target) /\ transcript' = [transcript EXCEPT !.state = @ + 1]
  <2>1. st \notin {2, 4, 5, 6}
    BY <1>0, <1>3 DEF Bare
  <2>2. TranscriptTypes'
    BY <1>1, <1>3 DEF TranscriptTypes
  <2>3. /\ transcript'.state = st + 1 /\ transcript'.trainer = transcript.trainer
        /\ transcript'.report = transcript.report /\ transcript'.nonce = transcript.nonce
        /\ transcript'.selected = transcript.selected
    BY <1>3 DEF TranscriptTypes
  <2>4. CommittedBeforeNonce' /\ TranscriptBinds
    BY <1>1, <2>1, <2>3, FieldsBind
  <2> QED  BY <2>2, <2>4
<1>4. CASE /\ target = "TRAJECTORY_COMMITTED"
           /\ transcript' = [transcript EXCEPT !.trainer = value, !.state = Accepted(value)]
  <2>1. transcript' = [transcript EXCEPT !.trainer = value, !.state = next] /\ st = 2
    BY <1>0, <1>4 DEF next
  <2>2. TranscriptTypes'
    BY <1>2, <2>1 DEF TranscriptTypes
  <2>3. /\ transcript'.state = next /\ transcript'.trainer = value
        /\ transcript'.report = transcript.report /\ transcript'.nonce = transcript.nonce
        /\ transcript'.selected = transcript.selected
    BY <2>1 DEF TranscriptTypes
  <2>4. CommittedBeforeNonce' /\ TranscriptBinds
    BY <1>1, <1>2, <2>1, <2>3, FieldsBind
  <2> QED  BY <2>2, <2>4
<1>5. CASE /\ target = "REPORT_COMMITTED"
           /\ transcript' = [transcript EXCEPT !.report = value, !.state = Accepted(value)]
  <2>1. transcript' = [transcript EXCEPT !.report = value, !.state = next] /\ st = 4
    BY <1>0, <1>5 DEF next
  <2>2. TranscriptTypes'
    BY <1>2, <2>1 DEF TranscriptTypes
  <2>3. /\ transcript'.state = next /\ transcript'.report = value
        /\ transcript'.trainer = transcript.trainer /\ transcript'.nonce = transcript.nonce
        /\ transcript'.selected = transcript.selected
    BY <2>1 DEF TranscriptTypes
  <2>4. CommittedBeforeNonce' /\ TranscriptBinds
    BY <1>1, <1>2, <2>1, <2>3, FieldsBind
  <2> QED  BY <2>2, <2>4
<1>6. CASE UNCHANGED transcript /\ st \in {5, 6}
  <2>1. TranscriptTypes'
    BY <1>6 DEF TranscriptTypes
  <2>2. /\ transcript'.state = st /\ transcript'.trainer = transcript.trainer
        /\ transcript'.report = transcript.report /\ transcript'.nonce = transcript.nonce
        /\ transcript'.selected = transcript.selected
    BY <1>6
  <2>3. CommittedBeforeNonce' /\ TranscriptBinds
    BY <1>1, <1>6, <2>2, FieldsBind
  <2> QED  BY <2>1, <2>3
<1>7. CASE /\ target = "OWNER_RANDOMNESS_REVEALED"
           /\ transcript' = [transcript EXCEPT !.nonce = value, !.state = Accepted(value)]
  <2>1. transcript' = [transcript EXCEPT !.nonce = value, !.state = next] /\ st = 5
    BY <1>0, <1>7 DEF next
  <2>2. TranscriptTypes'
    BY <1>2, <2>1 DEF TranscriptTypes
  <2>3. /\ transcript'.state = next /\ transcript'.nonce = value
        /\ transcript'.trainer = transcript.trainer /\ transcript'.report = transcript.report
        /\ transcript'.selected = transcript.selected
    BY <2>1 DEF TranscriptTypes
  <2>4. CommittedBeforeNonce' /\ TranscriptBinds
    BY <1>1, <1>2, <2>1, <2>3, FieldsBind
  <2> QED  BY <2>2, <2>4
<1>8. ASSUME NEW S \in SamplesOf(Produced, count), target = "PRODUCTION_AUDIT_SELECTED",
             transcript' = [transcript EXCEPT !.selected = S, !.state = @ + 1]
      PROVE  TranscriptTypes' /\ CommittedBeforeNonce' /\ TranscriptBinds
  <2>1. S \in SUBSET Produced /\ st = 6
    BY <1>0, <1>8 DEF SamplesOf, kSubset
  <2>2. TranscriptTypes'
    BY <1>1, <1>8, <2>1 DEF TranscriptTypes
  <2>3. /\ transcript'.state = st + 1 /\ transcript'.nonce = transcript.nonce
        /\ transcript'.trainer = transcript.trainer /\ transcript'.report = transcript.report
    BY <1>8 DEF TranscriptTypes
  <2>4. CommittedBeforeNonce' /\ TranscriptBinds
    BY <1>1, <2>1, <2>3, FieldsBind
  <2> QED  BY <2>2, <2>4
<1> QED  BY <1>0, <1>3, <1>4, <1>5, <1>6, <1>7, <1>8 DEF AdvanceTo

(* No other step touches the transcript.                                   *)
LEMMA TranscriptKept ==
  ASSUME TranscriptTypes, CommittedBeforeNonce, transcript' = transcript
  PROVE  TranscriptTypes' /\ CommittedBeforeNonce' /\ TranscriptBinds
<1>1. TranscriptTypes' /\ CommittedBeforeNonce'
  BY DEF TranscriptTypes, CommittedBeforeNonce
<1>2. transcript.state \in Nat
  BY DEF TranscriptTypes
<1>3. transcript.nonce # Unset => transcript.trainer # Unset /\ transcript.report # Unset
  BY <1>2 DEF CommittedBeforeNonce
<1> QED  BY <1>1, <1>3 DEF TranscriptBinds

LEMMA AuditStarts == AuditInit => AuditInv
<1> SUFFICES ASSUME AuditInit PROVE AuditInv
  OBVIOUS
<1>1. TranscriptTypes
  BY DEF AuditInit, TranscriptTypes
<1>2. transcript.state = 0 /\ transcript.nonce = Unset
  BY DEF AuditInit
<1>3. CommittedBeforeNonce
  BY <1>2 DEF CommittedBeforeNonce
<1>4. OpenedOnce
  BY DEF AuditInit, OpenedOnce
<1> QED  BY <1>1, <1>3, <1>4 DEF AuditInv

LEMMA AuditSteps == AuditInv /\ [AuditNext]_audit => AuditInv' /\ TranscriptBinds
<1> SUFFICES ASSUME AuditInv, [AuditNext]_audit PROVE AuditInv' /\ TranscriptBinds
  OBVIOUS
<1>0. TranscriptTypes /\ CommittedBeforeNonce /\ OpenedOnce
  BY DEF AuditInv
<1>1. ASSUME transcript' = transcript
      PROVE  TranscriptTypes' /\ CommittedBeforeNonce' /\ TranscriptBinds
  BY <1>0, <1>1, TranscriptKept
<1>2. ASSUME NEW target, NEW value \in Values \cup {Unset}, NEW count, Advance(target, value, count)
      PROVE  AuditInv' /\ TranscriptBinds
  <2>1. OpenedOnce'
    BY <1>0, <1>2 DEF Advance, OpenedOnce
  <2>2. TranscriptTypes' /\ CommittedBeforeNonce' /\ TranscriptBinds
    <3>1. CASE IsNext(target)
      BY <3>1, <1>0, <1>2, AdvanceBinds DEF Advance
    <3>2. CASE ~IsNext(target)
      BY <3>2, <1>1, <1>2 DEF Advance
    <3> QED  BY <3>1, <3>2
  <2> QED  BY <2>1, <2>2 DEF AuditInv
<1>3. ASSUME NEW key, Assign(key) PROVE AuditInv' /\ TranscriptBinds
  <2>1. transcript' = transcript /\ settlements' = settlements
        /\ challenge = "none" /\ challenge' = "committed"
    BY <1>3 DEF Assign
  <2>2. OpenedOnce'
    BY <1>0, <2>1 DEF OpenedOnce
  <2> QED  BY <2>1, <2>2, <1>1 DEF AuditInv
<1>4. ASSUME NEW key \in DOMAIN ADMISSION_POLICIES, SettleAudited(key)
      PROVE  AuditInv' /\ TranscriptBinds
  <2>1. transcript' = transcript /\ assignment' = assignment
    BY <1>4 DEF SettleAudited
  <2>2. OpenedOnce'
    <3>1. CASE Refused(key, assignment.verdicts)
      BY <3>1, <2>1, <1>0, <1>4 DEF SettleAudited, OpenedOnce
    <3>2. CASE ~Refused(key, assignment.verdicts)
      <4>1. DOMAIN assignment.verdicts = delivered_policy_tasks(key) /\ settlements = <<>>
        BY <3>2, <1>0 DEF Refused, OpenedOnce
      <4>2. PICK selected \in SamplesOf(Produced, ADMISSION_POLICIES[key].count) :
              /\ challenge' = "used"
              /\ settlements' = Append(settlements, Receipt(key, assignment.verdicts, selected))
        BY <3>2, <1>4 DEF SettleAudited
      <4>3. settlements' = <<Receipt(key, assignment.verdicts, selected)>>
        BY <4>1, <4>2
      <4>4. DOMAIN assignment'.verdicts = delivered_policy_tasks(key)
            /\ settlements' = <<Receipt(key, assignment'.verdicts, selected)>>
        BY <2>1, <4>1, <4>3
      <4> QED  BY <4>2, <4>4 DEF OpenedOnce
    <3> QED  BY <3>1, <3>2
  <2> QED  BY <2>1, <2>2, <1>1 DEF AuditInv
<1>5. ASSUME UNCHANGED audit PROVE AuditInv' /\ TranscriptBinds
  <2>1. transcript' = transcript /\ assignment' = assignment /\ challenge' = challenge
        /\ settlements' = settlements
    BY <1>5 DEF audit
  <2>2. OpenedOnce'
    BY <1>0, <2>1 DEF OpenedOnce
  <2> QED  BY <2>1, <2>2, <1>1 DEF AuditInv
<1> QED  BY <1>2, <1>3, <1>4, <1>5 DEF AuditNext

LEMMA AuditInvSuffices == AuditInv => AuditExact
<1> SUFFICES ASSUME AuditInv PROVE AuditExact
  OBVIOUS
<1>1. CASE challenge # "used"
  <2>1. settlements = <<>>
    BY <1>1 DEF AuditInv, OpenedOnce
  <2> QED  BY <2>1 DEF AuditExact
<1>2. CASE challenge = "used"
  <2>1. PICK key \in DOMAIN ADMISSION_POLICIES :
        \E selected \in SamplesOf(Produced, ADMISSION_POLICIES[key].count) :
          /\ DOMAIN assignment.verdicts = delivered_policy_tasks(key)
          /\ settlements = <<Receipt(key, assignment.verdicts, selected)>>
    BY <1>2 DEF AuditInv, OpenedOnce
  <2>2. PICK selected \in SamplesOf(Produced, ADMISSION_POLICIES[key].count) :
          /\ DOMAIN assignment.verdicts = delivered_policy_tasks(key)
          /\ settlements = <<Receipt(key, assignment.verdicts, selected)>>
    BY <2>1
  <2>3. ReceiptExact(Receipt(key, assignment.verdicts, selected), assignment.verdicts)
    BY <2>2, ReceiptsExact
  <2>4. Len(settlements) = 1 /\ \A k \in DOMAIN settlements :
          settlements[k] = Receipt(key, assignment.verdicts, selected)
    BY <2>2
  <2> QED  BY <2>3, <2>4, <1>2 DEF AuditExact
<1> QED  BY <1>1, <1>2

(* A report is settled once and by the published chances, and no call      *)
(* changes a sample or what it was drawn from.                             *)
THEOREM AuditBindsAlways == AuditSpec => AuditBinds
<1>1. AuditInit => AuditInv
  BY AuditStarts
<1>2. AuditInv /\ [AuditNext]_audit => AuditInv'
  BY AuditSteps
<1>3. AuditInv => AuditExact
  BY AuditInvSuffices
<1>4. AuditInv /\ [AuditNext]_audit => [TranscriptBinds]_audit
  BY AuditSteps
<1> QED  BY <1>1, <1>2, <1>3, <1>4, PTL DEF AuditSpec, AuditBinds
================================================================================
