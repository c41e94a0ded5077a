---------------------------- MODULE OverheadCampaign ----------------------------
(***************************************************************************)
(* The overhead campaign of replay probes: a job is timed in phases that   *)
(* must not overlap, timings, bytes and identities are summed up, each     *)
(* dataset is gated on its measured blocks, and the campaign is routed to  *)
(* its terminal verdict.                                                   *)
(*                                                                         *)
(* `activity` says which of these a behaviour is about.  Bytes are numbers *)
(* and a name, a shape or a label is one of them; a tick of the clock is a *)
(* second.                                                                 *)
(***************************************************************************)
EXTENDS Integers, Sequences, FiniteSets, SequencesExt, FiniteSetsExt, Functions

CONSTANTS
  MaxClock, Phases,  (* bound of a job and the phases it names              *)
  MaxPhases,         (* bound of the phases of a job                        *)
  Ledgers,           (* rows to sum up: records with a kind                 *)
  Required,          (* the datasets of the campaign, in their order        *)
  MeasuredBlocks,    (* what a dataset may measure: rows [seed, G1, ... G4] *)
  Flaws,             (* what may be invalid of it, "none" included          *)
  Draws, CellQuantile, Thresholds,
  Protocols          (* [symmetric, stopLoss, enabled]: whether G3 and G4   *)
                     (* are gated too, and the dataset of the stop loss     *)

CampaignAssumption ==
  /\ MaxClock \in Nat /\ MaxPhases \in Nat \ {0} /\ "none" \in Flaws
  /\ IsInjective(Required) /\ Required # <<>>

VARIABLES
  activity,   (* "timing", "summing" or "routing"                           *)
  clock, running, phases, cursor, (* of a timed job                         *)
  ledger,     (* to sum up, or the protocol of the campaign                 *)
  measured,   (* dataset -> its gate                                        *)
  summary     (* of the activity                                            *)
vars == <<activity, clock, running, phases, cursor, ledger, measured, summary>>
Open == [open |-> TRUE]
Raised == [raised |-> TRUE]

-------------------------------------------------------------------------------
(* Sums, and the quantile of a bootstrap of ratios that numpy's method     *)
(* "higher" takes; a ratio is a pair <<numerator, denominator>>.           *)
Below(a, b) == a[1] * b[2] < b[1] * a[2]
Total(values) ==
  LET sum[i \in 0..Len(values)] == IF i = 0 THEN 0 ELSE sum[i - 1] + values[i]
  IN sum[Len(values)]
Size(i) == IF i < 0 THEN -i ELSE i
Field(rows, name) == [i \in DOMAIN rows |-> rows[i][name]]
RankHigher(count, q) == 1 - ((-(q[1] * (count - 1))) \div q[2])
RatioQuantile(ratios, q) == SortSeq(ratios, Below)[RankHigher(Len(ratios), q)]

-------------------------------------------------------------------------------
(* A job in phases: the cursor is where the last recorded phase ended.     *)

StartPhase(name) ==
  /\ Len(running) + Len(phases) < MaxPhases
  /\ running' = Append(running, [phase |-> name, start |-> clock])
  /\ UNCHANGED <<clock, phases, cursor, summary>>
PassTime ==
  /\ clock < MaxClock
  /\ clock' = clock + 1
  /\ UNCHANGED <<running, phases, cursor, summary>>
\* Mutant: a phase is held against the start of the job only.
RecordFromStart(i) ==
  /\ running' = RemoveAt(running, i)
  /\ phases' = Append(phases, [phase |-> running[i].phase, start |-> running[i].start, end |-> clock])
  /\ cursor' = 0
  /\ UNCHANGED <<clock, summary>>
RecordPhase(i) ==
  /\ running' = RemoveAt(running, i)
  /\ IF running[i].start < cursor
     THEN summary' = Raised /\ UNCHANGED <<phases, cursor>>
     ELSE /\ phases' = Append(phases, [phase |-> running[i].phase, start |-> running[i].start, end |-> clock])
          /\ cursor' = clock
          /\ UNCHANGED summary
  /\ UNCHANGED clock
Totals ==
  LET spent(S) == Total([i \in DOMAIN phases |->
        IF phases[i].phase \in S THEN phases[i].end - phases[i].start ELSE 0])
      named == [name \in Range(Field(phases, "phase")) |-> spent({name})]
  IN [named |-> named, total |-> spent(Phases), residual |-> clock - spent(Phases), wall |-> clock]
CloseJob == summary' = Totals /\ UNCHANGED <<clock, running, phases, cursor>>
Timing ==
  /\ activity = "timing" /\ summary = Open
  /\ \/ \E name \in Phases : StartPhase(name)
     \/ PassTime
     \/ \E i \in DOMAIN running : RecordPhase(i)
     \/ CloseJob
  /\ UNCHANGED <<activity, ledger, measured>>
(* In hundredths: an accounting closes within a hundredth of the job.      *)
ClosurePassed(totals) ==
  /\ 100 * Size(totals.total + totals.residual - totals.wall) <= totals.wall
  /\ 100 * totals.residual >= -totals.wall

-------------------------------------------------------------------------------
(* Ledgers                                                                 *)

(* Timings [unit, repetition, seconds] into a mean per unit.               *)
\* Mutant: a later row of a repetition replaces an earlier one.
AggregateLatest(rows, expected) ==
  LET units == Range(Field(rows, "unit"))
      of(u) == {i \in DOMAIN rows : rows[i].unit = u}
      last(u, k) == rows[Max({i \in of(u) : rows[i].repetition = k})].seconds
  IN IF \E u \in units : {rows[i].repetition : i \in of(u)} # Range(expected) THEN Raised
     ELSE [u \in units |-> <<Total([k \in DOMAIN expected |-> last(u, expected[k])]), Len(expected)>>]
Aggregate(rows, expected) ==
  LET units == Range(Field(rows, "unit"))
      of(u) == {i \in DOMAIN rows : rows[i].unit = u}
      seconds(u) == [i \in DOMAIN rows |-> IF i \in of(u) THEN rows[i].seconds ELSE 0]
  IN IF \/ \E i \in DOMAIN rows : rows[i].seconds < 0
        \/ \E i, j \in DOMAIN rows : /\ i < j
                                     /\ rows[i].unit = rows[j].unit
                                     /\ rows[i].repetition = rows[j].repetition
        \/ \E u \in units : {rows[i].repetition : i \in of(u)} # Range(expected)
     THEN Raised
     ELSE [u \in units |-> <<Total(seconds(u)), Cardinality(of(u))>>]

(* Bytes [category, bytes, physical], the last -1 where nothing was        *)
(* written.                                                                *)
AccumulateBytes(rows, categories) ==
  IF \E i \in DOMAIN rows : \/ rows[i].category \notin categories
                            \/ rows[i].bytes < 0
                            \/ rows[i].physical # -1 /\ rows[i].physical # rows[i].bytes
  THEN Raised
  ELSE [totals |-> [c \in categories |->
          Total([i \in DOMAIN rows |-> IF rows[i].category = c THEN rows[i].bytes ELSE 0])],
        checked |-> Cardinality({i \in DOMAIN rows : rows[i].physical # -1})]

(* One route per block, from its rows [role, verdict, expected, bytes] of  *)
(* sources, a probe among them.                                            *)
Probed(rows) == \E s \in DOMAIN rows : rows[s].role # "production"
Mismatches(rows) ==
  {s \in DOMAIN rows : rows[s].role # "production" /\ rows[s].verdict # rows[s].expected}
SettlementIdentity(rows, threshold) ==
  LET missed == Cardinality(Mismatches(rows))
      supported == \A s \in DOMAIN rows : rows[s].role = "production" => rows[s].verdict
  IN [missed |-> missed,
      route |-> IF missed >= threshold THEN "reject" ELSE IF supported THEN "settle" ELSE "defer"]
\* Mutant: only the settlements are compared.
CompareSettlements(left, right, threshold) ==
  IF ~(Probed(left) /\ Probed(right)) THEN Raised ELSE
  [passed |-> SettlementIdentity(left, threshold) = SettlementIdentity(right, threshold),
   settled |-> SettlementIdentity(left, threshold)]
CompareObserver(left, right, threshold) ==
  IF ~(Probed(left) /\ Probed(right)) THEN Raised ELSE
  [passed |-> /\ DOMAIN left = DOMAIN right
              /\ \A s \in DOMAIN left \cap DOMAIN right : left[s] = right[s]
              /\ SettlementIdentity(left, threshold) = SettlementIdentity(right, threshold),
   settled |-> SettlementIdentity(left, threshold)]

(* The bytes of a proof [initial, checkpoints], each state a function from *)
(* names to sequences of bytes.                                            *)
Sorted(S) == SetToSortSeq(S, <)
\* Mutant: the length of a tensor is not written before it.
TensorUnframed(name, raw) == <<2, name, 0>> \o raw
TensorRecord(name, raw) == <<2, name, 0, Len(raw)>> \o raw
StateRecords(label, state) ==
  LET names == Sorted(DOMAIN state)
      written[i \in 0..Len(names)] ==
        IF i = 0 THEN <<label, Len(names)>> ELSE written[i - 1] \o TensorRecord(names[i], state[names[i]])
  IN written[Len(names)]
ProofStream(proof) ==
  LET checkpoints[i \in 0..Len(proof.checkpoints)] ==
        IF i = 0 THEN <<>> ELSE checkpoints[i - 1] \o StateRecords(i, proof.checkpoints[i])
  IN <<Len(proof.checkpoints)>> \o StateRecords(0, proof.initial) \o checkpoints[Len(proof.checkpoints)]
VerifyReceived(payload, sealed) == IF ProofStream(payload) = sealed THEN [received |-> sealed] ELSE Raised

Sum(kind, value) ==
  /\ activity = "summing" /\ ledger.kind = kind /\ summary = Open
  /\ summary' = value
  /\ UNCHANGED <<activity, clock, running, phases, cursor, ledger, measured>>
SumTimings == Sum("timings", Aggregate(ledger.rows, ledger.expected))
SumBytes == Sum("bytes", AccumulateBytes(ledger.rows, ledger.categories))
CompareRuns == Sum("observer", CompareObserver(ledger.left, ledger.right, ledger.threshold))
ReceiveProof == Sum("proof", VerifyReceived(ledger.delivered, ProofStream(ledger.sealed)))

-------------------------------------------------------------------------------
(* Gates of datasets, and the route                                        *)

Drawings(blocks, endpoint) ==
  [d \in DOMAIN Draws |->
     <<Total([i \in DOMAIN Draws[d] |-> blocks[Draws[d][i]][endpoint][1]]),
       Total([i \in DOMAIN Draws[d] |-> blocks[Draws[d][i]][endpoint][2]])>>]
\* Mutant: the point estimate is compared with the threshold.
EstimatePoint(rows, endpoint) ==
  LET point == <<Total([i \in DOMAIN rows |-> rows[i][endpoint][1]]),
                 Total([i \in DOMAIN rows |-> rows[i][endpoint][2]])>>
  IN [point |-> point, upper |-> rows[1][endpoint]]
Estimate(rows, endpoint) ==
  LET blocks == SortSeq(rows, LAMBDA a, b : a.seed < b.seed)
  IN [point |-> <<Total([i \in DOMAIN blocks |-> blocks[i][endpoint][1]]),
                  Total([i \in DOMAIN blocks |-> blocks[i][endpoint][2]])>>,
      upper |-> RatioQuantile(Drawings(blocks, endpoint), CellQuantile)]
Endpoints(symmetric) == IF symmetric THEN {"G1", "G2", "G3", "G4"} ELSE {"G1", "G2"}
DatasetGate(rows, flaw, symmetric) ==
  LET estimates == [e \in Endpoints(symmetric) |-> Estimate(rows, e)]
      passed == [e \in Endpoints(symmetric) |-> Below(estimates[e].upper, Thresholds[e])]
      all == \A e \in Endpoints(symmetric) : passed[e]
  IN [rows |-> rows, estimates |-> estimates, passed |-> passed, endpoints |-> all, valid |-> flaw = "none",
      verdict |-> IF flaw # "none" THEN "VOID_RERUN" ELSE IF all THEN "PASS" ELSE "ACCEPTED_NEGATIVE"]
MeasureDataset(d, rows, flaw) ==
  /\ activity = "routing" /\ summary = Open
  /\ d \notin DOMAIN measured
  /\ measured' = (d :> DatasetGate(rows, flaw, ledger.symmetric)) @@ measured
  /\ UNCHANGED <<activity, clock, running, phases, cursor, ledger, summary>>

Terminal(verdict, terminal, change) == [verdict |-> verdict, terminal |-> terminal, change |-> change]
BoundaryConfirmed ==
  \A d \in Range(Required) :
    /\ ~measured[d].passed["G1"]
    /\ \A e \in {"G2", "G3", "G4"} : e \in DOMAIN measured[d].passed /\ measured[d].passed[e]
\* Mutant: a stop loss is taken before the audit is asked for.
RouteUnaudited(audited, stopLoss, enabled) ==
  IF \E d \in DOMAIN measured : ~measured[d].valid THEN Terminal("VOID_RERUN", "TECHNICAL_VALIDITY_FAILURE", FALSE)
  ELSE IF stopLoss \in DOMAIN measured /\ enabled /\ ~measured[stopLoss].endpoints
  THEN Terminal("ACCEPTED_NEGATIVE", "CIFAR10_STOP_LOSS", TRUE)
  ELSE IF ~audited THEN Terminal("VOID_RERUN", "INDEPENDENT_AUDIT_FAILURE", FALSE)
  ELSE IF Range(Required) = DOMAIN measured THEN Terminal("PASS", "THREE_DATASET_OVERHEAD_MEASURED", TRUE)
  ELSE Terminal("VOID_RERUN", "MANDATORY_CONFIRMATION_INCOMPLETE", FALSE)
Route(audited, stopLoss, enabled) ==
  LET completed == Range(Required) \cap DOMAIN measured
      gating == IF stopLoss \in Range(Required) THEN stopLoss ELSE Required[1]
  IN IF completed = {} THEN Raised
     ELSE IF \E d \in completed : measured[d].verdict = "VOID_RERUN"
     THEN Terminal("VOID_RERUN", "TECHNICAL_VALIDITY_FAILURE", FALSE)
     ELSE IF ~audited THEN Terminal("VOID_RERUN", "INDEPENDENT_AUDIT_FAILURE", FALSE)
     ELSE IF gating \notin DOMAIN measured THEN Raised
     ELSE IF enabled /\ ~measured[gating].endpoints
     THEN Terminal("ACCEPTED_NEGATIVE", IF gating = stopLoss THEN "CIFAR10_STOP_LOSS" ELSE "STOP_LOSS", TRUE)
     ELSE IF completed # Range(Required)
     THEN Terminal("VOID_RERUN", "MANDATORY_CONFIRMATION_INCOMPLETE", FALSE)
     ELSE IF \A d \in Range(Required) : measured[d].endpoints
     THEN Terminal("PASS", IF \A d \in Range(Required) : "G4" \in DOMAIN measured[d].passed
                           THEN "THREE_DATASET_SYMMETRIC_OVERHEAD_MEASURED" ELSE "THREE_DATASET_OVERHEAD_MEASURED", TRUE)
     ELSE Terminal("ACCEPTED_NEGATIVE",
            IF BoundaryConfirmed THEN "G1_BOUNDARY_CONFIRMED" ELSE "THREE_DATASET_MIXED_OR_FAIL", TRUE)
RouteCampaign ==
  \E audited \in BOOLEAN :
    /\ activity = "routing" /\ summary = Open
    /\ summary' = [route |-> Route(audited, ledger.stopLoss, ledger.enabled), audited |-> audited]
    /\ UNCHANGED <<activity, clock, running, phases, cursor, ledger, measured>>

(* The gates of an earlier campaign, its rows in any order, are estimated  *)
(* again and compared with what was sealed.                                *)
InheritedHold(sealed) ==
  /\ DOMAIN sealed = Range(Required)
  /\ \A d \in DOMAIN sealed : \A e \in {"G1", "G2"} :
       Estimate(sealed[d].rows, e) = sealed[d].estimates[e]
ReplayInherited ==
  \E altered \in Range(Required) \cup {"none"} :
    /\ activity = "routing" /\ summary = Open
    /\ LET sealed == [d \in DOMAIN measured |->
             [measured[d] EXCEPT !.rows = Reverse(@),
                                 !.estimates["G2"].upper[1] = IF d = altered THEN @ + 1 ELSE @]]
       IN summary' = [inherited |-> InheritedHold(sealed), altered |-> altered]
    /\ UNCHANGED <<activity, clock, running, phases, cursor, ledger, measured>>

-------------------------------------------------------------------------------
Init ==
  /\ activity \in {"timing", "summing", "routing"}
  /\ clock = 0 /\ running = <<>> /\ phases = <<>> /\ cursor = 0
  /\ CASE activity = "timing" -> ledger = Open
       [] activity = "summing" -> ledger \in Ledgers
       [] activity = "routing" -> ledger \in Protocols
  /\ measured = <<>> /\ summary = Open
Reported == summary # Open /\ UNCHANGED vars
Next ==
  \/ Timing
  \/ SumTimings
  \/ SumBytes
  \/ CompareRuns
  \/ ReceiveProof
  \/ \E d \in Range(Required), rows \in MeasuredBlocks, flaw \in Flaws :
       MeasureDataset(d, rows, flaw)
  \/ RouteCampaign
  \/ ReplayInherited
  \/ Reported

-------------------------------------------------------------------------------
(* Properties                                                              *)

(* Each moment of a job is in one phase at most, and those in none are the *)
(* residual.                                                               *)
MomentsCounted ==
  LET covering(t) == {i \in DOMAIN phases : phases[i].start <= t /\ t < phases[i].end}
  IN activity = "timing" =>
       /\ \A t \in 0..(clock - 1) : Cardinality(covering(t)) <= 1
       /\ summary # Open /\ summary # Raised =>
            /\ summary.residual = Cardinality({t \in 0..(clock - 1) : covering(t) = {}})
            /\ ClosurePassed(summary)

(* A sum is refused exactly when a row is missing, doubled or wrong, and   *)
(* otherwise loses nothing; what differs from its twin in a run without    *)
(* instruments, or from what was sealed, is found.                         *)
LedgersSummed ==
  activity = "summing" /\ summary # Open =>
    CASE ledger.kind = "timings" ->
           LET rows == ledger.rows
               exact == \A i \in DOMAIN rows : rows[i].seconds >= 0 /\
                 \A k \in Range(ledger.expected) \cup {rows[i].repetition} :
                   Cardinality({j \in DOMAIN rows : rows[j].unit = rows[i].unit /\ rows[j].repetition = k})
                     = (IF k \in Range(ledger.expected) THEN 1 ELSE 0)
           IN /\ (summary = Raised) = ~exact
              /\ exact => \A i \in DOMAIN rows : summary[rows[i].unit] =
                   <<Total([j \in DOMAIN rows |-> IF rows[j].unit = rows[i].unit THEN rows[j].seconds ELSE 0]),
                     Len(ledger.expected)>>
      [] ledger.kind = "bytes" ->
           summary # Raised =>
             /\ Total([i \in DOMAIN ledger.rows |-> ledger.rows[i].bytes])
                  = Total([c \in 1..Cardinality(ledger.categories) |-> summary.totals[Sorted(ledger.categories)[c]]])
             /\ \A i \in DOMAIN ledger.rows : ledger.rows[i].physical \in {-1, ledger.rows[i].bytes}
      [] ledger.kind = "observer" ->
           summary # Raised => summary.passed = (ledger.left = ledger.right)
      [] ledger.kind = "proof" -> (summary = Raised) = (ledger.delivered # ledger.sealed)

(* A dataset passes an endpoint only if one of its blocks is below the     *)
(* threshold, and does if all are.  A pass needs every dataset, a negative *)
(* result one that failed, a change of the paper an audit and nothing      *)
(* invalid; a campaign is void only for an audit, a flaw or a gap.         *)
RoutedForCause ==
  LET below(d, e) == {i \in DOMAIN measured[d].rows : Below(measured[d].rows[i][e], Thresholds[e])}
      whole == DOMAIN measured = Range(Required)
      failing == {d \in DOMAIN measured : \E e \in Endpoints(ledger.symmetric) :
                    below(d, e) # DOMAIN measured[d].rows}
      valid == \A d \in DOMAIN measured : measured[d].valid
  IN activity = "routing" =>
       /\ \A d \in DOMAIN measured :
            /\ measured[d].endpoints => \A e \in Endpoints(ledger.symmetric) : below(d, e) # {}
            /\ d \notin failing => measured[d].endpoints
       /\ "route" \in DOMAIN summary /\ summary.route # Raised =>
            LET r == summary.route
            IN /\ r.change => summary.audited /\ valid
               /\ r.verdict = "PASS" =>
                    whole /\ \A d \in DOMAIN measured : \A e \in Endpoints(ledger.symmetric) : below(d, e) # {}
               /\ r.verdict = "ACCEPTED_NEGATIVE" =>
                    failing # {} /\ (whole \/ (ledger.enabled /\ \E d \in failing : d \in {ledger.stopLoss, Required[1]}))
               /\ r.verdict = "VOID_RERUN" => ~summary.audited \/ ~valid \/ ~whole
               /\ r.terminal = "G1_BOUNDARY_CONFIRMED" =>
                    ledger.symmetric /\ \A d \in Range(Required) : \A e \in {"G2", "G3", "G4"} : below(d, e) # {}
       /\ "inherited" \in DOMAIN summary =>
            summary.inherited = (whole /\ summary.altered = "none")

CampaignSound == MomentsCounted /\ LedgersSummed /\ RoutedForCause
================================================================================
