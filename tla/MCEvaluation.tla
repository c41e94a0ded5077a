------------------------------ MODULE MCEvaluation ------------------------------
(* Small instances for TLC.  A behaviour simulates a trace of three tasks  *)
(* over six members, sends the transfers of a link, compares the methods  *)
(* directly on a dataset, compiles and answers one replay task, puts       *)
(* evidence to a gate, or runs an overhead campaign.  The six share no     *)
(* state.                                                                  *)
EXTENDS SlotRecovery, DirectExecution, ReplayProbes

Contract(method, initial, threshold, budget) ==
  [method |-> method, initial |-> initial, threshold |-> threshold, budget |-> budget]
MCContracts ==
  {Contract("owner-only", 0, 0, 0), Contract("vanilla", 1, 1, 0), Contract("depol", 3, 2, 0),
   Contract("refiner", 4, 3, 0), Contract("full-sevc", 3, 3, 2)}
MCTaskOrders ==
  {<<<<"m1", "m2", "m3", "m4", "m5", "m6">>, <<"m3", "m1", "m5", "m2", "m4", "m6">>,
     <<"m6", "m4", "m3", "m2", "m1", "m5">>>>,
   <<<<"m1", "m2", "m3", "m4", "m5", "m6">>, <<"m1", "m2", "m3", "m5", "m4", "m6">>,
     <<"m5", "m4", "m1", "m3", "m2", "m6">>>>}

-------------------------------------------------------------------------------
(* Datasets                                                                *)

Metrics(TP, FN, FP) == [TP |-> TP, FN |-> FN, FP |-> FP]
SourceUnit(ctiv, refiner) ==
  [found \in {"none", "ctiv", "refiner"} |->
     CASE found = "none" -> Metrics(0, ctiv.TP + ctiv.FN, 0)
       [] found = "ctiv" -> ctiv
       [] found = "refiner" -> refiner]
System(state, bad, failures, units) ==
  [state |-> state, bad |-> bad, failures |-> failures, source |-> units]
MCBadStates == {"trainer-segment-deviation", "compound-trainer-verifier-failure"}
MCSystemStates ==
  <<System("trainer-segment-deviation", TRUE, FALSE, "bad"),
    System("compound-trainer-verifier-failure", TRUE, TRUE, "bad"),
    System("verifier-failure", FALSE, TRUE, "clean")>>
OnBad ==
  {SourceUnit(found, Metrics(1, 1, 0)) : found \in {Metrics(2, 0, 0), Metrics(1, 1, 0), Metrics(0, 2, 1)}}
    \cup {SourceUnit(Metrics(0, 0, 0), Metrics(0, 0, 0))}
OnClean == {SourceUnit(found, Metrics(0, 0, 1)) : found \in {Metrics(0, 0, 0), Metrics(0, 0, 1)}}
MCSourceUnits ==
  {[s \in {"bad", "clean"} |-> IF s = "bad" THEN bad ELSE <<clean>>] :
     bad \in {<<u>> : u \in OnBad} \cup (OnBad \X OnBad), clean \in OnClean}
Orders ==
  {<<1, 2, 3, 4, 5>>, <<1, 4, 2, 3, 5>>, <<4, 1, 2, 3, 5>>, <<4, 5, 1, 2, 3>>, <<4, 1, 5, 2, 3>>}
MCTraceSeeds ==
  {<<o>> : o \in Orders} \cup {<<o, p>> : o \in Orders, p \in {<<4, 5, 1, 2, 3>>, <<1, 2, 3, 4, 5>>}}

-------------------------------------------------------------------------------
(* Replay tasks: a three cycle, a drawn identity and swaps; the running    *)
(* statistic of channel one is coarse; the last step of one source has no  *)
(* gradient.                                                               *)

MCDrawnMaps ==
  [s1 |-> [hidden0 |-> <<2, 3, 1>>, hidden1 |-> <<1, 2>>],
   s2 |-> [hidden0 |-> <<1, 2, 3>>, hidden1 |-> <<2, 1>>]]
Origin(a) ==
  LET hidden == {<<i>> : i \in 1..3}
  IN [w1 |-> [ix \in hidden |-> IF ix[1] = a THEN 2 ELSE ix[1] - 2],
      rm |-> [ix \in hidden |-> IF ix[1] = 1 THEN 64 ELSE 0],
      w3 |-> [ix \in (1..2) \X (1..3) |-> IF ix[1] = 1 THEN 1 ELSE ix[2] - a],
      w5 |-> [ix \in {1} \X (1..2) |-> 2 * ix[2] - 3],
      b5 |-> [ix \in {<<1>>} |-> a - 1]]
OnW1 == <<"w1", <<1>>>>
OnW3 == <<"w3", <<2, 1>>>>
Flaw(k, spot, by) == [k |-> k, spot |-> spot, by |-> by]
MCFlaws ==
  {Flaw(1, OnW1, by) : by \in {0, 5}}
    \cup {Flaw(k, spot, by) : k \in {3, 4}, spot \in {OnW1, OnW3}, by \in {-1, 1}}
Setup(protocol, mutation, identity, wrapper, seed, opaque) ==
  [protocol |-> protocol, mutation |-> mutation, identity |-> identity, wrapper |-> wrapper,
   seed |-> seed, opaque |-> opaque]
MCSetups ==
  {Setup("v4", "suffix", "fused", "permuted", "s1", FALSE),
   Setup("v4", "suffix", "deferred", "permuted", "s2", FALSE),
   Setup("v2", "suffix", "reference", "permuted", "s1", FALSE),
   Setup("v4", "coherent", "reference", "identity", "s1", TRUE),
   Setup("v4", "coherent", "fused", "permuted", "s2", TRUE),
   Setup("v4", "continuation", "deferred", "identity", "s2", TRUE),
   Setup("v4", "continuation", "deferred", "permuted", "s1", TRUE)}

MCOrigins == {Origin(1), Origin(3)}
MCBatchSequences == {<<100, 100, 0, 5659>>, <<0, 1, -100, -100>>}
MCSpots == {OnW1, OnW3, <<"b5", <<1>>>>, <<"rm", <<1>>>>}

-------------------------------------------------------------------------------
(* Evidence for the gates: studies with up to two exceptional blocks, all  *)
(* trials up to nine, timings of two blocks, predictions and public rows of*)
(* three blocks, and views of one envelope.                                *)
Perfect == [false |-> FALSE, detected |-> {"L", "C+", "C-", "D"}, cost |-> 100,
            costs |-> [a \in {"L", "C+", "C-", "D"} |-> IF a = "L" THEN 90 ELSE 0]]
Exceptions ==
  {Perfect, [Perfect EXCEPT !.false = TRUE], [Perfect EXCEPT !.detected = @ \ {"L"}],
   [Perfect EXCEPT !.detected = @ \ {"D"}, !.costs["C+"] = 100],
   [Perfect EXCEPT !.false = TRUE, !.detected = @ \ {"L"}]}
MCBlocks(x, y, n) == [i \in 1..n |-> IF i = 1 THEN x ELSE IF i = 2 THEN y ELSE Perfect]
Once(n) == [i \in 1..n |-> i]
Studies ==
  {[kind |-> "study", rows |-> MCBlocks(x, y, n), flaw |-> "none",
    draws |-> <<[i \in 1..n |-> first], Once(n), [i \in 1..n |-> 3 - first]>>, alpha |-> <<1, 2>>] :
     x \in Exceptions, y \in Exceptions, n \in {6, 8, 12}, first \in {1, 2}}
  \cup
  {[kind |-> "study", rows |-> MCBlocks(x, y, n), flaw |-> flaw, draws |-> <<Once(n)>>, alpha |-> <<1, 20>>] :
     x \in Exceptions, y \in Exceptions, n \in {6, 20, 30, 46, 59, 60},
     flaw \in {"none", "violation", "atoms", "witness", "repetition", "environment", "auditor", "runtime",
               "lambda", "auc", "coverage", "overhead", "attack"}}
Trials == {[kind |-> "trials", trials |-> n, alpha |-> a] : n \in 5..9, a \in {<<2, 5>>, <<3, 5>>}}
Timed(online, allin, den) == [online |-> online, allin |-> allin, den |-> den]
Timings == {Timed(1, 2, 4), Timed(3, 3, 2), Timed(0, 5, 3)}
Repeat(seed, k, t) == [seed |-> seed, repetition |-> k, online |-> t.online, allin |-> t.allin, den |-> t.den]
Both(seed, t, u) ==
  [seed |-> seed, online |-> t.online + u.online, allin |-> t.allin + u.allin, den |-> t.den + u.den]
Damaged(repeats, how) ==
  CASE how = "none" -> repeats
    [] how = "lost" -> Tail(repeats)
    [] how = "twice" -> Append(Tail(repeats), repeats[2])
    [] how = "more" -> Append(repeats, repeats[1])
Overheads ==
  {[kind |-> "overhead", rows |-> <<Both(7, t[1], t[2]), Both(5, t[3], t[4])>>,
    repeats |-> Damaged(<<Repeat(7, 1, t[1]), Repeat(5, 2, t[4]), Repeat(7, 2, t[2]), Repeat(5, 1, t[3])>>, how),
    repetitions |-> {1, 2}, compiled |-> <<[baseline |-> 3, optimized |-> 1], [baseline |-> 2, optimized |-> 2]>>,
    draws |-> draws, alpha |-> <<1, 4>>] :
     t \in [1..4 -> Timings], how \in {"none", "lost", "twice", "more"},
     draws \in {<<<<1, 2>>, <<1, 1>>>>, <<<<1, 2>>, <<2, 2>>, <<2, 1>>>>, <<<<2, 2>>, <<1, 1>>, <<1, 1>>, <<1, 2>>>>}}
ScoredRow(probe, low, high) ==
  [probe |-> probe, decides |-> {k \in {"a", "b"} : (IF k = "a" THEN low ELSE high) >= 1},
   scores |-> [k \in {"a", "b"} |-> IF k = "a" THEN low ELSE high]]
Profiles ==
  {<<ScoredRow(TRUE, 2, 0), ScoredRow(FALSE, 0, 0), ScoredRow(FALSE, 1, 2)>>,
   <<ScoredRow(FALSE, 2, 0), ScoredRow(TRUE, 0, 2), ScoredRow(FALSE, 2, 1)>>,
   <<ScoredRow(TRUE, 1, 1), ScoredRow(FALSE, 1, 1), ScoredRow(FALSE, 1, 1)>>,
   <<ScoredRow(TRUE, 0, 0), ScoredRow(FALSE, 2, 0), ScoredRow(FALSE, 2, 0)>>,
   <<ScoredRow(TRUE, 0, 0), ScoredRow(TRUE, 2, 0), ScoredRow(FALSE, 2, 0)>>}
MCDraws ==
  {<<<<1, 1, 2>>, <<2, 2, 3>>, <<3, 3, 1>>>>, <<<<1, 1, 1>>, <<2, 2, 2>>, <<3, 3, 3>>>>,
   <<<<1, 2, 3>>, <<1, 1, 1>>, <<1, 2, 3>>, <<2, 2, 3>>>>}
Predictions ==
  {[kind |-> "selectors", blocks |-> blocks, selectors |-> {"a", "b"}, draws |-> draws, alpha |-> <<1, 2>>] :
     blocks \in [1..3 -> Profiles], draws \in MCDraws}
PublicRow(block, probe, value) == [block |-> block, probe |-> probe, value |-> value, hash |-> value]
PublicRows == {[i \in 1..6 |-> PublicRow((i + 1) \div 2, i % 2 = 1, v[i])] : v \in [1..6 -> 0..2]}
FewRows == {[i \in 1..6 |-> PublicRow((i + 1) \div 2, i = 1 \/ (i = 3 /\ v[6] # 2), v[i])] : v \in [1..6 -> {0, 2}]}
CrossFits == {[kind |-> "crossfit", rows |-> table, frozen |-> 3] : table \in PublicRows \cup FewRows}
Cheap ==
  {[kind |-> "cheap", rows |-> table, runtimes |-> [split |-> time, even |-> 1, odd |-> 2], budget |-> budget,
    draws |-> draws, alpha |-> <<1, 2>>] :
     table \in FewRows, time \in {1, 3}, budget \in {0, 1, 3}, draws \in MCDraws}
  \cup {[kind |-> "cheap", rows |-> table, runtimes |-> [split |-> 1, even |-> 1, odd |-> 2], budget |-> 3,
         draws |-> draws, alpha |-> <<1, 2>>] : table \in PublicRows, draws \in {<<<<1, 1, 2>>, <<2, 2, 3>>, <<3, 3, 1>>>>}}
Leaf(seen, probes) == [left |-> -1, right |-> -1, feature |-> "none", threshold |-> 0, rows |-> seen, probes |-> probes]
Split(feature, threshold, left, right) ==
  [left |-> left, right |-> right, feature |-> feature, threshold |-> threshold, rows |-> 0, probes |-> 0]
FrozenSelectors ==
  {[kind |-> "threshold", feature |-> f, direction |-> d, threshold |-> 1] :
     f \in {"tensors", "length"}, d \in {"le", "ge"}}
  \cup {[kind |-> "bucket", modulus |-> 2, bucket |-> 0]}
  \cup {[kind |-> "logistic", weights |-> <<<<"length", w>>, <<"nibble", 1>>, <<"sketch", -1>>>>, offset |-> 1] : w \in {0, 1}}
  \cup {[kind |-> "tree", tree |-> <<Split(f, 1, 2, 3), Leaf(4, 1), Split(g, 0, 4, 5), Leaf(2, 1), Leaf(0, 0)>>] :
          f \in {"length", "tensors", "nibble"}, g \in {"nibble", "summary", "tensors"}}
Views ==
  {[kind |-> "view", selector |-> selector,
    view |-> [tensors |-> t, compact |-> [length |-> 1, nibble |-> n], full |-> [length |-> 2, nibble |-> m],
              summary |-> s, sketch |-> k, addressed |-> (t # 3), hash |-> h]] :
     selector \in FrozenSelectors, t \in {1, 2, 3}, n \in 0..2, m \in 0..2, s \in 0..1, k \in 0..1, h \in {4, 5}}
MCEvidences == Studies \cup Trials \cup Overheads \cup Predictions \cup CrossFits \cup Cheap \cup Views

-------------------------------------------------------------------------------
(* Ledgers of the overhead campaign: timings of up to five rows, bytes of  *)
(* up to three, two runs of two sources, and proofs of one tensor or two.  *)
Timing(unit, k, seconds) == [unit |-> unit, repetition |-> k, seconds |-> seconds]
TimingRows ==
  {Timing(u, k, 2 * k + 1) : u \in {"proof", "check"}, k \in {1, 2}}
    \cup {Timing("proof", 2, -1), Timing("proof", 3, 1)}
TimingLedgers ==
  {[kind |-> "timings", rows |-> table, expected |-> <<2, 1>>] :
     table \in UNION {[1..n -> TimingRows] : n \in 0..4}}
Written(category, bytes, physical) == [category |-> category, bytes |-> bytes, physical |-> physical]
Bytes ==
  {[kind |-> "bytes", rows |-> table, categories |-> {1, 2}] :
     table \in UNION {[1..n -> {Written(1, 4, -1), Written(1, 2, 2), Written(2, 3, 3), Written(2, 3, 4),
                               Written(3, 1, -1), Written(2, -1, -1)}] : n \in 0..3}}
Seen(role, verdict, expected, bytes) == [role |-> role, verdict |-> verdict, expected |-> expected, bytes |-> bytes]
Sightings ==
  {Seen(role, verdict, TRUE, bytes) : role \in {"production", "control"}, verdict \in BOOLEAN, bytes \in {1, 2}}
    \cup {Seen("challenge", verdict, FALSE, 1) : verdict \in BOOLEAN}
Runs == [{1, 2} -> Sightings] \cup [{1} -> Sightings]
Observers ==
  {[kind |-> "observer", left |-> left, right |-> right, threshold |-> 1] : left \in Runs, right \in Runs}
Raws == {<<>>, <<2>>, <<1, 2>>, <<2, 2, 0>>, <<0, 0, 2, 1, 0>>}
States == UNION {[names -> Raws] : names \in {{}, {1}, {1, 2}}}
SmallStates == UNION {[names -> {<<>>, <<2>>, <<2, 2, 0>>}] : names \in {{}, {2}}}
Proofs ==
  {[initial |-> state, checkpoints |-> <<>>] : state \in States}
    \cup {[initial |-> state, checkpoints |-> <<other>>] : state \in SmallStates, other \in SmallStates}
Deliveries == {[kind |-> "proof", sealed |-> a, delivered |-> b] : a \in Proofs, b \in Proofs}
MCLedgers == TimingLedgers \cup Bytes \cup Observers \cup Deliveries

Alike(n, d) == [e \in {"G1", "G2", "G3", "G4"} |-> <<n, d>>]
MeasuredRow(seed, cells) == [e \in {"seed", "G1", "G2", "G3", "G4"} |-> IF e = "seed" THEN seed ELSE cells[e]]
MCMeasuredBlocks ==
  {<<MeasuredRow(9, Alike(1, 4)), MeasuredRow(3, Alike(1, 3)), MeasuredRow(5, Alike(2, 9))>>,
   <<MeasuredRow(9, Alike(1, 4)), MeasuredRow(3, [Alike(1, 3) EXCEPT !["G1"] = <<3, 4>>, !["G3"] = <<1, 4>>]),
     MeasuredRow(5, [Alike(1, 5) EXCEPT !["G1"] = <<4, 5>>])>>,
   <<MeasuredRow(9, Alike(1, 1)), MeasuredRow(3, Alike(1, 9)), MeasuredRow(5, Alike(1, 9))>>}

-------------------------------------------------------------------------------
VARIABLES
  part,
  payload, lossy, chunk, attempt, sent, transfers,
  evidence, result,
  activity, clock, running, phases, cursor, ledger, measured, summary
linked == <<payload, lossy, chunk, attempt, sent, transfers>>
judged == <<evidence, result>>
campaigned == <<activity, clock, running, phases, cursor, ledger, measured, summary>>

Link == INSTANCE LinkTransfer WITH
  Payloads <- {1, 4, 5, 8, 9}, ChunkBytes <- 4, MaximumRetries <- 2, Transfers <- 2,
  RoundTrip <- 3, ByteTime <- 2, Lossy <- BOOLEAN
Gates == INSTANCE StudyGates WITH
  Evidences <- MCEvidences, FeePercent <- 130, BondPercent <- 200, LiquidityPercent <- 5,
  ScreenBlocks <- 6, AuthorizedBlocks <- 2, BlockRows <- <<1, 2>>, Folds <- 2
Campaign == INSTANCE OverheadCampaign WITH
  MaxClock <- 4, Phases <- {"setup", "compile"}, MaxPhases <- 3, Ledgers <- MCLedgers,
  Required <- <<"cifar10", "mnist", "cifar100">>, MeasuredBlocks <- MCMeasuredBlocks,
  Flaws <- {"none", "closure"}, Draws <- <<<<1, 2, 3>>, <<3, 3, 1>>, <<2, 2, 1>>>>,
  CellQuantile <- <<3, 4>>, Thresholds <- [e \in {"G1", "G2", "G3", "G4"} |-> <<1, 2>>],
  Protocols <- [symmetric : BOOLEAN, stopLoss : {"cifar10", "mnist", "tiny"}, enabled : BOOLEAN]

ASSUME
  /\ SlotAssumption /\ Link!LinkAssumption /\ DirectAssumption /\ ProbeAssumption /\ Gates!GateAssumption
  /\ Campaign!CampaignAssumption

NotRun == "not run"
NotTraced ==
  /\ contract = NotRun /\ capacity = NotRun /\ missed = NotRun /\ responses = NotRun
  /\ dropout = NotRun /\ rosters = NotRun /\ usage = NotRun /\ task = NotRun /\ capped = NotRun
  /\ attempts = NotRun /\ twin = NotRun /\ rows = NotRun
NotLinked ==
  /\ payload = NotRun /\ lossy = NotRun /\ chunk = NotRun /\ attempt = NotRun
  /\ sent = NotRun /\ transfers = NotRun
NotCompared == registry = <<>> /\ outcomes = <<>> /\ variants = <<>> /\ gate = "open"
NotProbed == ProbesInit
NotJudged == evidence = NotRun /\ result = NotRun
NotCampaigned ==
  /\ activity = NotRun /\ clock = NotRun /\ running = NotRun /\ phases = NotRun
  /\ cursor = NotRun /\ ledger = NotRun /\ measured = NotRun /\ summary = NotRun

MCInit ==
  \/ part = "trace" /\ Init /\ NotLinked /\ NotCompared /\ NotProbed /\ NotJudged /\ NotCampaigned
  \/ part = "link" /\ Link!Init /\ NotTraced /\ NotCompared /\ NotProbed /\ NotJudged /\ NotCampaigned
  \/ part = "direct" /\ DirectInit /\ NotTraced /\ NotLinked /\ NotProbed /\ NotJudged /\ NotCampaigned
  \/ part = "probes" /\ ProbesInit /\ NotTraced /\ NotLinked /\ NotCompared /\ NotJudged /\ NotCampaigned
  \/ part = "gates" /\ Gates!Init /\ NotTraced /\ NotLinked /\ NotCompared /\ NotProbed /\ NotCampaigned
  \/ /\ part = "campaign" /\ Campaign!Init
     /\ NotTraced /\ NotLinked /\ NotCompared /\ NotProbed /\ NotJudged
MCNext ==
  \/ part = "trace" /\ Next /\ UNCHANGED <<part, linked, compared, probed, judged, campaigned>>
  \/ part = "link" /\ Link!Next /\ UNCHANGED <<part, vars, compared, probed, judged, campaigned>>
  \/ part = "direct" /\ DirectNext /\ UNCHANGED <<part, vars, linked, probed, judged, campaigned>>
  \/ part = "probes" /\ ProbesNext /\ UNCHANGED <<part, vars, linked, compared, judged, campaigned>>
  \/ part = "gates" /\ Gates!Next /\ UNCHANGED <<part, vars, linked, compared, probed, campaigned>>
  \/ part = "campaign" /\ Campaign!Next /\ UNCHANGED <<part, vars, linked, compared, probed, judged>>
MCSpec == MCInit /\ [][MCNext]_<<part, vars, linked, compared, probed, judged, campaigned>>

(* Of a trace: capacity is shared by its tasks and explains the deferrals, *)
(* and claims are exact for independent members; of a link: bytes,         *)
(* attempts and times add up whatever is lost.                             *)
SimulationAccounted ==
  /\ part = "trace" => SlotsAccounted
  /\ part = "link" => Link!TransferAccounted

(* Of the gates: bounds err as rarely as they claim, selectors are judged  *)
(* on blocks they were not fitted on, and a study that passes means it.    *)
(* Of a campaign: each moment of a job is counted once, sums lose nothing, *)
(* and its verdict has its cause.                                          *)
StudiesJudged ==
  /\ part = "gates" => Gates!GatesSound
  /\ part = "campaign" => Campaign!CampaignSound
===============================================================================
