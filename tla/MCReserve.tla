------------------------------ MODULE MCReserve ------------------------------
(* Rosters of five for TLC: a behaviour plays a recovery game with a       *)
(* planner that looks ahead, recovers jobs under the escrow, answers a     *)
(* request for a certificate, forms committees and predicts their          *)
(* completion, or judges a round of submitted updates.  The five share no  *)
(* state, escrow and certificates the roster's code.                       *)
EXTENDS ReserveEscrow

(* Recovery games on five identities and two jobs: every compatibility up  *)
(* to the order of the identities, which only breaks ties.  Those that     *)
(* serve both jobs come first, so that matchings have to move them.        *)
MCIdentities == 0..4
MCJobs == {0, 1}
Rank(jobs) == IF jobs = {0, 1} THEN 0 ELSE IF jobs = {0} THEN 1 ELSE 2
Compatibilities ==
  {c \in [0..4 -> (SUBSET {0, 1}) \ {{}}] : \A i \in 0..3 : Rank(c[i]) <= Rank(c[i + 1])}
Needs == {[j \in {0, 1} |-> 1 + j], [j \in {0, 1} |-> 2]}
MCGames ==
  {[compat |-> compat, need |-> need, allowance |-> allowance] :
     compat \in Compatibilities, need \in Needs, allowance \in 0..2}

MCTieBreak == [v \in 1..5 |-> <<3, 1, 4, 2, 5>>[v]]
MCOne == 100000
Percent(n) == (n * MCOne) \div 100

Offer(reputation, fee, capacity, conflicts) ==
  [reputation |-> reputation, fee |-> fee, capacity |-> capacity, accepts |-> TRUE,
   bond |-> 3, conflicts |-> conflicts]
Pool == <<Offer(9, 4, 1, {}), Offer(8, 5, 1, {}), Offer(7, 4, 1, {}), Offer(7, 3, 1, {}),
          Offer(6, 6, 1, {})>>

Recovery(policy, committees, batch, absent, multiplier) ==
  [policy |-> policy, offers |-> Pool, committees |-> committees, cap |-> 5, batch |-> batch,
   removal |-> 1, retainer |-> 2, availabilityBond |-> 1, activeFee |-> 3, activeBond |-> 3,
   sentinel |-> 1, adjudication |-> 1, multiplier |-> multiplier, capacityAware |-> FALSE,
   absent |-> absent, targets |-> [j \in DOMAIN committees |-> Percent(88)],
   outcomes |-> {"PASS", "FAIL_CONFIRMED"}]

Shared == [v \in 1..5 |-> [Pool[v] EXCEPT !.capacity = IF v \in {2, 4} THEN 2 ELSE 1]]
InConflict == [Pool EXCEPT ![4].conflicts = {1}]

Absences == {{}, {2}, {1, 4}}
MCSetups ==
  {Recovery(policy, <<<<1, 2, 3>>>>, batch, absent, multiplier) :
     policy \in {"prefix", "sare", "rtr"}, batch \in {1, 2}, absent \in Absences, multiplier \in {1, 2}}
  \cup {Recovery("sare", <<<<1>>>>, 2, absent, multiplier) :
          absent \in Absences, multiplier \in {2, 3, 4}}
  \cup {[Recovery(policy, <<<<1>>, <<3>>>>, batch, absent, 5)
           EXCEPT !.capacityAware = TRUE, !.offers = Shared] :
          policy \in {"prefix", "sare"}, batch \in {1, 2}, absent \in {{}, {2}}}
  \cup {[Recovery("rtr", <<<<1>>>>, 2, {}, 5) EXCEPT !.offers = InConflict],
        [Recovery("sare", <<<<1>>, <<4>>>>, 2, {}, 5)
           EXCEPT !.offers = [InConflict EXCEPT ![4].conflicts = {2}]],
        [Recovery("sare", <<<<1>>>>, 2, {}, 5)
           EXCEPT !.outcomes = {"PASS", "TECHNICAL_FAILURE"}]}

MCLeft == Recovery("prefix", <<<<1, 2, 3>>>>, 1, {}, 1)

-------------------------------------------------------------------------------
(* Certificates                                                            *)

CertifiedOffer(reputation, capacity, conflicts, accepts) ==
  [reputation |-> reputation, capacity |-> capacity, accepts |-> accepts, fee |-> 4,
   bond |-> 3, conflicts |-> conflicts]

(* Reputations in tenths, from distinct ones to ties, below and above 1/2. *)
Pools == {<<9, 8, 7, 6, 3>>, <<9, 7, 4, 2>>, <<8, 8, 7, 7, 7>>, <<7, 9, 8, 9>>,
          <<9, 8, 6>>, <<4, 3, 2>>, <<6, 7, 8, 9, 5>>, <<10, 9, 9, 8>>}

SingleJob(pool, primary, robust, removal, absent, target, feasible) ==
  [multiJob |-> FALSE, allResponse |-> FALSE, budgetFeasible |-> feasible, robust |-> robust,
   offers |-> [v \in DOMAIN pool |-> CertifiedOffer(pool[v], 1, {}, TRUE)],
   committees |-> <<primary>>, targets |-> <<target>>, target |-> target, margin |-> Percent(1),
   caps |-> <<3, 5>>, ceiling |-> 5, batch |-> 1, removal |-> removal,
   lazy |-> absent, dropout |-> 1, retainer |-> 1, sentinel |-> 1, adjudication |-> 1,
   multiplier |-> 3, confidence |-> 500]

SeveralJobs(pool, capacities, conflicts, needs, absent, all) ==
  [SingleJob(pool, <<1>>, TRUE, 0, absent, needs[1], TRUE)
     EXCEPT !.multiJob = TRUE, !.allResponse = all, !.committees = [j \in DOMAIN needs |-> <<1>>],
            !.targets = needs, !.dropout = 0, !.margin = 0, !.caps = <<3, 4, 5>>, !.multiplier = 9,
            !.ceiling = Len(pool),
            !.offers = [v \in DOMAIN pool |-> CertifiedOffer(pool[v], capacities[v], conflicts[v], TRUE)]]

MCRequests ==
  {SingleJob(pool, primary, robust, removal, absent, Percent(target), feasible) :
     pool \in Pools, primary \in {<<1>>, <<2>>, <<1, 2, 3>>}, robust \in BOOLEAN,
     removal \in 0..2, absent \in {0, 1}, target \in {75, 88}, feasible \in BOOLEAN}
  \cup
  {SeveralJobs(pool, capacities, conflicts, needs, absent, all) :
     pool \in {<<9, 8, 7, 6>>, <<9, 9, 8, 8>>},
     capacities \in {<<1, 1, 1, 1>>, <<1, 2, 1, 2>>, <<3, 2, 2, 1>>, <<2, 2, 2, 2>>},
     conflicts \in {<<{}, {}, {}, {}>>, <<{1}, {2}, {}, {}>>, <<{1}, {1}, {2}, {}>>},
     needs \in {<<Percent(60), Percent(60)>>, <<Percent(75), Percent(60)>>,
                <<Percent(60), Percent(60), Percent(60)>>},
     absent \in {0, 1, 2}, all \in BOOLEAN}

-------------------------------------------------------------------------------
(* Requests to form committees of up to four identities, in tenths, and    *)
(* predictions over up to four members.                                    *)
Sought(variant, probabilities, threshold, count) ==
  [variant |-> variant, probabilities |-> probabilities, threshold |-> threshold, count |-> count]
Reliabilities == {0, 4, 6, 7, 9, 10}
Greedy ==
  {Sought(variant, probabilities, threshold, count) :
     variant \in {"greedy-minimal", "legacy-greedy"},
     probabilities \in UNION {[1..n -> Reliabilities] : n \in 1..3}, threshold \in {6, 8}, count \in {1, 2}}
    \cup {Sought("greedy-minimal", <<6, 7, 9, 7, 8>>, threshold, 2) : threshold \in {7, 8, 9}}
    \cup {Sought("greedy-minimal", <<7, 7, 6, 7, 7>>, threshold, 2) : threshold \in {8, 9}}
Searches ==
  {Sought("genetic", probabilities, 7, 2) : probabilities \in {<<8, 7, 9>>, <<6, 9, 8>>}}
MCFormations == Greedy \cup Searches

MCFounders(formation) ==
  LET individuals == {<<2, 2, 2>>, <<0, 0, 0>>, <<1, 0, 1>>, <<2, 1, 0>>}
  IN [1..3 -> individuals]

Prediction(clusters, usage, threshold, enforced) ==
  [clusters |-> clusters, roster |-> <<2, 1, 3>>, usage |-> usage, capacity |-> 2,
   threshold |-> threshold, enforced |-> enforced]
Clusters == {<<<<TRUE, FALSE>>, <<FALSE, FALSE>>>>, <<<<TRUE, TRUE>>, <<FALSE, FALSE>>>>,
             <<<<TRUE, FALSE>>, <<FALSE, TRUE>>>>, <<<<TRUE, TRUE, FALSE>>, <<FALSE, FALSE, FALSE>>>>,
             <<<<TRUE, TRUE>>, <<TRUE, TRUE>>>>}
MCPredictions ==
  {Prediction(clusters, usage, threshold, enforced) :
     clusters \in Clusters, threshold \in 0..4, enforced \in BOOLEAN,
     usage \in {<<0, 0, 0, 0>>, <<2, 1, 0, 0>>, <<1, 2, 3, 1>>}}

-------------------------------------------------------------------------------
(* Rounds of one to six updates: on a line where distances are taken, in   *)
(* the plane where a trusted update is.  Averages are of up to four.       *)
Submitted(method, updates, weights, root, replays, losses) ==
  [method |-> method, updates |-> updates, weights |-> weights, root |-> root,
   replays |-> replays, losses |-> losses]
Ones(updates) == [i \in DOMAIN updates |-> 1]
Unplayed(updates) == [i \in DOMAIN updates |-> "none"]
Line(xs) == [i \in DOMAIN xs |-> <<xs[i], 0>>]
OnLine ==
  {Line(xs) : xs \in [1..3 -> {0, 1, 4}] \cup [1..4 -> {0, 1, 3, 9}]}
    \cup {Line(xs) : xs \in [1..5 -> {0, 2, 7}]}
    \cup {Line(<<0, a, 1, b, 3, c>>) : a, b, c \in {1, 8, 20}}
Krum == {Submitted("multi-krum", u, Ones(u), <<1, 0>>, Unplayed(u), Ones(u)) : u \in OnLine}
Plane == {<<0, 0>>, <<2, 1>>, <<-1, 1>>, <<0, -2>>, <<1, 0>>}
Trusted ==
  {Submitted("fltrust", u, Ones(u), root, Unplayed(u), Ones(u)) :
     u \in [1..3 -> Plane], root \in {<<0, 0>>, <<1, 1>>, <<2, -1>>}}
Three == <<<<3, 0>>, <<0, 5>>, <<-2, 1>>>>
Replayed ==
  {Submitted(method, Three, weights, <<1, 0>>, replays, Ones(Three)) :
     method \in {"none", "sevc-ctiv-registered-v1"}, weights \in [1..3 -> {0, 1, 3}],
     replays \in [1..3 -> {"none", "passes", "fails"}]}
MCNonfinite == -1
Four == <<<<3, 0>>, <<0, 5>>, <<-2, 1>>, <<1, 1>>>>
ByLosses ==
  {Submitted("refiner-update-audit-style", Four, <<1, 2, 3, 1>>, <<1, 0>>, Unplayed(Four), losses) :
     losses \in [1..4 -> {MCNonfinite, 0, 1, 2, 5}]}
MCAggregations == Krum \cup Trusted \cup Replayed \cup ByLosses

Asked(method, updates, replays, truth) ==
  [method |-> method, updates |-> updates, replays |-> replays, truth |-> truth]
Truth(updates) == [i \in DOMAIN updates |-> i % 2 = 0]
Models == {Line(xs) : xs \in UNION {[1..n -> {0, 1, 3, 8}] : n \in 1..3} \cup [1..4 -> {0, 1, 3}]}
MCVerifications ==
  {Asked(method, u, Unplayed(u), Truth(u)) :
     method \in {"test-acc", "influence", "multi-krum", "update-significance", "none", "reproduction-oracle"},
     u \in Models}
    \cup {Asked("sampled-shapley", Line(xs), <<"none", "none", "none">>, <<TRUE, FALSE, TRUE>>) :
            xs \in [1..3 -> {0, 1, 3}]}
    \cup {Asked("trajectory-replay", Three, replays, truth) :
            replays \in [1..3 -> {"none", "passes", "fails"}], truth \in [1..3 -> BOOLEAN]}
MCAverages ==
  {[updates |-> Four, excluded |-> excluded] : excluded \in [1..4 -> BOOLEAN]}

(* Of an average: 12 is divided by each number of models.                  *)
Point(average) == (12 * average[1]) \div average[3]
MCAccuracy(average) == (Point(average) * Point(average)) % 11
MCLoss(average) == Point(average)

-------------------------------------------------------------------------------
ASSUME RosterConstants /\ One = MCOne

VARIABLES part, game, unused, passes, failures, attempts, rounds, controller, cap, at, fallen,
          rootValue, pledged
(* Only the solver is taken from this instance; with no cap to pay an      *)
(* assignment, its assumption is refuted before a second cache is filled.  *)
Solver == INSTANCE ExactRecovery WITH
  Identities <- MCIdentities, Jobs <- MCJobs, Games <- MCGames, Caps <- {-1}, Excess <- 0, Cache <- {}
MCCache == Solver!Filled(MCGames)
Exact == INSTANCE ExactRecovery WITH
  Identities <- MCIdentities, Jobs <- MCJobs, Games <- MCGames, Caps <- {2, 5}, Excess <- 1,
  Cache <- MCCache
ASSUME Exact!ExactAssumption

VARIABLES request, asked, rosters, answer
Cert == INSTANCE RosterCertification WITH
  Scale <- 10, MaxRoster <- 5, TieBreak <- MCTieBreak, Requests <- MCRequests, phase <- asked

VARIABLES sought, formed, outstanding, population, generation, founders, prior, observed, turn
Formation == INSTANCE CommitteeFormation WITH
  Parts <- 10, Formations <- MCFormations, PopulationSize <- 3, Generations <- 1,
  MaxMutations <- 1, Founders <- MCFounders, Predictions <- MCPredictions,
  MeanFloor <- <<1, 6>>, IccFloor <- <<1, 6>>, IccCeiling <- <<3, 4>>,
  request <- sought, remaining <- outstanding, stage <- turn
ASSUME Formation!FormationAssumption

VARIABLES round, orders, outcome
Updating == INSTANCE UpdateAggregation WITH
  Aggregations <- MCAggregations, Verifications <- MCVerifications,
  Averages <- MCAverages, SampleCount <- 2, Accuracy <- MCAccuracy,
  Loss <- MCLoss, Nonfinite <- MCNonfinite
ASSUME Updating!AggregationAssumption

recovering ==
  <<game, unused, passes, failures, attempts, rounds, controller, cap, at, fallen, rootValue, pledged>>
escrow == <<setup, order, job, stage, wave, ledger, committed, waves, status, results, transfers>>
certificate == <<request, asked, rosters, answer>>
forming == <<sought, formed, outstanding, population, generation, founders, prior, observed, turn>>
updating == <<round, orders, outcome>>

NotRun == "not run"
NoRecovering ==
  /\ game = NotRun /\ unused = NotRun /\ passes = NotRun /\ failures = NotRun /\ attempts = NotRun
  /\ rounds = NotRun /\ controller = NotRun /\ cap = NotRun /\ at = NotRun /\ fallen = NotRun
  /\ rootValue = NotRun /\ pledged = NotRun
NoCertificate == request = NotRun /\ asked = NotRun /\ rosters = NotRun /\ answer = NotRun
NoFormation ==
  /\ sought = NotRun /\ formed = NotRun /\ outstanding = NotRun /\ population = NotRun
  /\ generation = NotRun /\ founders = NotRun /\ prior = NotRun /\ observed = NotRun /\ turn = NotRun
NoUpdating == round = NotRun /\ orders = NotRun /\ outcome = NotRun
(* The escrow is left where one of its recoveries begins.                  *)
MCLeftOrder == <<1, 2, 4, 3, 5>>
ASSUME MCLeftOrder = RosterOf(MCLeft)
NoEscrow ==
  /\ setup = MCLeft /\ order = MCLeftOrder /\ job = 1 /\ stage = "lock"
  /\ wave = [role |-> "primary", members |-> <<>>] /\ ledger = Initialized(0) /\ committed = 0
  /\ waves = <<>> /\ status = <<Unsettled>> /\ results = {} /\ transfers = {}

MCInit ==
  \/ part = "recovery" /\ Exact!ExactInit /\ NoEscrow /\ NoCertificate /\ NoFormation /\ NoUpdating
  \/ part = "escrow" /\ Init /\ NoRecovering /\ NoCertificate /\ NoFormation /\ NoUpdating
  \/ part = "certificate" /\ Cert!Init /\ NoRecovering /\ NoEscrow /\ NoFormation /\ NoUpdating
  \/ part = "formation" /\ Formation!Init /\ NoRecovering /\ NoEscrow /\ NoCertificate /\ NoUpdating
  \/ part = "updates" /\ Updating!Init /\ NoRecovering /\ NoEscrow /\ NoCertificate /\ NoFormation

(* The call for a certificate has returned.                                *)
Returned == asked \in {"answered", "refused"} /\ UNCHANGED certificate

MCNext ==
  \/ part = "recovery" /\ Exact!ExactNext /\ UNCHANGED <<part, escrow, certificate, forming, updating>>
  \/ part = "escrow" /\ Next /\ UNCHANGED <<part, recovering, certificate, forming, updating>>
  \/ part = "certificate" /\ Cert!Next /\ UNCHANGED <<part, recovering, escrow, forming, updating>>
  \/ part = "certificate" /\ Returned /\ UNCHANGED <<part, recovering, escrow, forming, updating>>
  \/ part = "formation" /\ Formation!Next /\ UNCHANGED <<part, recovering, escrow, certificate, updating>>
  \/ part = "updates" /\ Updating!Next /\ UNCHANGED <<part, recovering, escrow, certificate, forming>>
MCSpec == MCInit /\ [][MCNext]_<<part, recovering, escrow, certificate, forming, updating>>

(* Of a certificate: the fast computations agree with the exhaustive ones, *)
(* and what it promises of the responders is true.  Of a recovery: what is *)
(* published of it agrees with the ledger.  Of a recovery game: what a     *)
(* planner certifies is completed in the end, and nothing more could be.   *)
(* Of a formation: its committees are as small and as reliable as they     *)
(* claim, its search loses nothing found, and a prediction agrees with     *)
(* what follows it.  Of a round of updates: what is left out has no part   *)
(* in the aggregate, and scores accuse what they are meant to.             *)
CertificateSound ==
  /\ part = "certificate" => Cert!FastIsExhaustive /\ Cert!CertificatesExact
  /\ part = "escrow" => RecordsSound
  /\ part = "recovery" => Exact!ExactSound
  /\ part = "formation" => Formation!FormationSound
  /\ part = "updates" => Updating!AggregationSound
===============================================================================
