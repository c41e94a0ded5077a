----------------------------- MODULE ServiceStudy -----------------------------
(***************************************************************************)
(* A claim-linked study with dataset-scoped disclosure: the lifecycle that *)
(* ScopedStudy, LocalTinyStudy and SubmissionTinyStudy give a run.  Each   *)
(* dataset is one source family.  Its core units are served, then its      *)
(* bridge units; the owner then closes the family's disclosure epoch and   *)
(* publishes the probe answers, and only then audits the calibration       *)
(* unit's reports against production references.                           *)
(*                                                                         *)
(* A run may stop anywhere: every exception leaves the run root as it is,  *)
(* and a later run continues it from a manifest, in a root of its own,     *)
(* with the finished units the manifest names.  What partial units and     *)
(* the process knew is lost.  The manifest is written outside this code:   *)
(* it says truthfully whether answers were published, and its lists of     *)
(* completed units and closed datasets are anything checked_manifest lets  *)
(* pass.                                                                   *)
(***************************************************************************)
EXTENDS DisclosureEpoch, Naturals, Sequences, FiniteSets

CONSTANTS
  Units,            (* the study's units                                   *)
  Assignments,      (* assignment ids                                      *)
  DatasetOrder,     (* the datasets in the order they are run              *)
  UnitOrder,        (* the units in the order they are run                 *)
  DatasetOf,        (* DatasetOf[u]: the dataset of unit u                 *)
  Bridge,           (* units with an anchor: run in the bridge phase       *)
  Plan,             (* Plan[u]: ids of unit u; none, without probes        *)
  Elective,         (* units whose recovery chooses what it activates      *)
  CalibrationUnit,  (* CalibrationUnit[d]: the calibration unit of d       *)
  MaxStops          (* bound on how often a run is cut short               *)

Datasets   == {DatasetOrder[i] : i \in DOMAIN DatasetOrder}
UnitsOf(d) == {u \in Units : DatasetOf[u] = d}
Planned(d) == UNION {Plan[u] : u \in UnitsOf(d)}

ASSUME OrderAssumption ==
  /\ DatasetOrder \in Seq(Datasets)
  /\ \A i, j \in DOMAIN DatasetOrder : DatasetOrder[i] = DatasetOrder[j] => i = j
  /\ UnitOrder \in Seq(Units) /\ \A u \in Units : \E i \in DOMAIN UnitOrder : UnitOrder[i] = u
ASSUME StudyAssumption ==
  /\ DatasetOf \in [Units -> Datasets] /\ Bridge \subseteq Units /\ Elective \subseteq Units
  /\ Plan \in [Units -> SUBSET Assignments]
  /\ \A u, v \in Units : u # v => Plan[u] \cap Plan[v] = {}
  /\ CalibrationUnit \in [Datasets -> Units]
  /\ \A d \in Datasets :
       LET c == CalibrationUnit[d]
       IN  DatasetOf[c] = d /\ c \notin Bridge \cup Elective /\ Plan[c] # {}
  /\ IsFiniteSet(Units) /\ IsFiniteSet(Assignments) /\ MaxStops \in Nat

VARIABLES
  (* the run root, which outlives the process *)
  outcome,     (* outcome[u]: what units/<u>.json says; PENDING: no file   *)
  settled,     (* settled[a]: the settlement in that file, if any          *)
  delivered,   (* units with a job-delivery-ready row                      *)
  audited,     (* assignments with an audit-selected row                   *)
  published,   (* reference-answers-published rows                         *)
  ledgerRows,  (* calibration-ledger.jsonl: the assignments of its rows    *)
  (* the process *)
  run,         (* running, stopped, raised, refused or done                *)
  closed,      (* closed_datasets of the manifest it continues             *)
  at,          (* index of the current dataset                             *)
  phase,       (* what it does with it                                     *)
  epoch,       (* the disclosure epoch                                     *)
  answers,     (* units whose probe answers are in disclosure_answers      *)
  unit,        (* {} or the unit in progress                               *)
  serving,     (* {} or the assignment in progress                         *)
  service,     (* settlements of the unit in progress                      *)
  reserved,    (* assignments with a calibration reservation               *)
  pending,     (* calibration_jobs                                         *)
  unwritten,   (* observed calibration rows not yet in the file            *)
  observed,    (* assignments whose ledger has its observation             *)
  (* the world *)
  disclosed,   (* units whose probe answers any run ever published         *)
  stops        (* how often a run was cut short                            *)

root    == <<outcome, settled, delivered, audited, published, ledgerRows>>
ledgers == <<reserved, pending, unwritten, observed>>
job     == <<unit, serving, service>>
process == <<closed, at, phase, epoch, answers, job, ledgers>>
vars    == <<root, process, run, disclosed, stops>>

None == "NONE"
Current == DatasetOrder[at]
NoService == [a \in Assignments |-> None]

(* ProbeDisclosureEpoch over ids, with the settled ones begun and finished *)
Replayed(ids, results) ==
  [NewEpoch(ids) EXCEPT !.states =
     [a \in ids |-> IF results[a] # None THEN results[a] ELSE "PLANNED"]]

(* How a process finds things when it starts.                              *)
Started(results) ==
  /\ at' = 1 /\ phase' = "start"
  /\ epoch' = Replayed(UNION {Plan[u] : u \in Units}, results)
  /\ unit' = {} /\ serving' = {} /\ service' = NoService
  /\ unwritten' = <<>> /\ observed' = {}

Init ==
  /\ outcome = [u \in Units |-> "PENDING"] /\ settled = NoService
  /\ delivered = {} /\ audited = {} /\ published = <<>> /\ ledgerRows = <<>>
  /\ run = "running" /\ closed = {} /\ at = 1 /\ phase = "start"
  /\ epoch = NewEpoch(UNION {Plan[u] : u \in Units})
  /\ answers = {} /\ unit = {} /\ serving = {} /\ service = NoService
  /\ reserved = {} /\ pending = {} /\ unwritten = <<>> /\ observed = {}
  /\ disclosed = {} /\ stops = 0

(* A protocol check fails: the ValueError ends the run.                    *)
Raise == run' = "raised" /\ UNCHANGED <<root, process, disclosed, stops>>

-------------------------------------------------------------------------------
(* The schedule                                                            *)

SkipDataset ==
  /\ run = "running" /\ phase = "start" /\ at \in DOMAIN DatasetOrder
  /\ Current \in closed
  /\ at' = at + 1
  /\ UNCHANGED <<root, closed, phase, epoch, answers, job, ledgers, run, disclosed, stops>>

(* Core phase: a new epoch for the dataset's planned ids.  Answers are     *)
(* kept over it only if units of the dataset were restored.                *)
StartDataset ==
  /\ run = "running" /\ phase = "start" /\ at \in DOMAIN DatasetOrder
  /\ Current \notin closed
  /\ phase' = "core"
  /\ epoch' = Replayed(Planned(Current), settled)
  /\ answers' = IF \E u \in UnitsOf(Current) : outcome[u] # "PENDING" THEN answers ELSE {}
  /\ UNCHANGED <<root, closed, at, job, ledgers, run, disclosed, stops>>

Phase(u) == IF u \in Bridge THEN "bridge" ELSE "core"
ToRun(u) == /\ outcome[u] = "PENDING" /\ DatasetOf[u] = Current /\ Phase(u) = phase
Due(u) ==
  \E i \in DOMAIN UnitOrder :
    /\ UnitOrder[i] = u /\ ToRun(u)
    /\ \A k \in 1..(i - 1) : ~ToRun(UnitOrder[k])

NextPhaseWhenMeasured ==
  /\ run = "running" /\ phase \in {"core", "bridge"} /\ unit = {}
  /\ \A u \in UnitsOf(Current) : Phase(u) = phase => outcome[u] = "MEASURED"
  /\ phase' = IF phase = "core" THEN "bridge" ELSE "close"
  /\ UNCHANGED <<root, closed, at, epoch, answers, job, ledgers, run, disclosed, stops>>
NextPhase ==
  /\ run = "running" /\ phase \in {"core", "bridge"} /\ unit = {}
  /\ \A u \in Units : ~ToRun(u)
  /\ phase' = IF phase = "core" THEN "bridge" ELSE "close"
  /\ UNCHANGED <<root, closed, at, epoch, answers, job, ledgers, run, disclosed, stops>>

Finish ==
  /\ run = "running" /\ phase = "start" /\ at \notin DOMAIN DatasetOrder
  /\ run' = "done"
  /\ UNCHANGED <<root, process, disclosed, stops>>

-------------------------------------------------------------------------------
(* Units and their assignments                                             *)

CanStart(u) ==
  run = "running" /\ phase \in {"core", "bridge"} /\ unit = {} /\ Due(u)

(* A resource budget is spent: the unit's row is written without service.  *)
Hold(u) ==
  /\ CanStart(u)
  /\ outcome' = [outcome EXCEPT ![u] = "HELD"]
  /\ UNCHANGED <<settled, delivered, audited, published, ledgerRows, process, run, disclosed, stops>>

(* A calibration unit gets a fresh ledger for each of its identities       *)
(* before service.  The job is issued or not, on the owner's replays.      *)
Reservations(u) ==
  IF u = CalibrationUnit[DatasetOf[u]]
  THEN /\ reserved' = reserved \cup Plan[u] /\ observed' = observed \ Plan[u]
  ELSE UNCHANGED <<reserved, observed>>

Unissued(u) ==
  /\ CanStart(u)
  /\ Reservations(u)
  /\ outcome' = [outcome EXCEPT ![u] = "UNISSUED"]
  /\ UNCHANGED <<settled, delivered, audited, published, ledgerRows, closed, at, phase, epoch,
                 answers, job, pending, unwritten, run, disclosed, stops>>

(* The issued job registers its assignments under the shared epoch and its *)
(* answers with the answers the epoch will publish.                        *)
Issue(u) ==
  /\ CanStart(u)
  /\ IF Plan[u] = {} \/ Covers(epoch, Plan[u])
     THEN /\ Reservations(u)
          /\ delivered' = delivered \cup {u}
          /\ answers' = IF Plan[u] = {} THEN answers ELSE answers \cup {u}
          /\ unit' = {u}
          /\ UNCHANGED <<outcome, settled, audited, published, ledgerRows, closed, at, phase,
                         epoch, serving, service, pending, unwritten, run, disclosed, stops>>
     ELSE Raise

(* serve: begin, before the audit seed is committed and the verifier runs  *)
Begin(a) ==
  /\ run = "running" /\ serving = {} /\ service[a] = None
  /\ \E u \in unit : a \in Plan[u]
  /\ IF MayBegin(epoch, a)
     THEN /\ epoch' = Begun(epoch, a) /\ serving' = {a}
          /\ UNCHANGED <<root, closed, at, phase, answers, unit, service, ledgers, run, disclosed, stops>>
     ELSE Raise

(* _admit and the rest of serve: the committed report selects the audit,   *)
(* the settlement finishes the assignment.                                 *)
Admit(a, status) ==
  /\ run = "running" /\ serving = {a}
  /\ IF MayFinish(epoch, a, status)
     THEN /\ audited' = audited \cup {a}
          /\ epoch' = Finished(epoch, a, status)
          /\ service' = [service EXCEPT ![a] = status]
          /\ serving' = {}
          /\ UNCHANGED <<outcome, settled, delivered, published, ledgerRows, closed, at, phase,
                         answers, unit, ledgers, run, disclosed, stops>>
     ELSE Raise

(* after_unit and finish_unit: the calibration unit's assignments await    *)
(* their observation; the unit's row is durable.                           *)
FinishUnit(u) ==
  /\ run = "running" /\ unit = {u} /\ serving = {}
  /\ u \in Elective \/ \A a \in Plan[u] : service[a] # None
  /\ outcome' = [outcome EXCEPT ![u] = "MEASURED"]
  /\ settled' = [a \in Assignments |-> IF a \in Plan[u] THEN service[a] ELSE settled[a]]
  /\ pending' = IF u = CalibrationUnit[DatasetOf[u]] THEN pending \cup {u} ELSE pending
  /\ unit' = {} /\ service' = NoService
  /\ UNCHANGED <<delivered, audited, published, ledgerRows, closed, at, phase, epoch, answers,
                 serving, reserved, unwritten, observed, run, disclosed, stops>>

-------------------------------------------------------------------------------
(* run_calibration                                                         *)

Publication ==
  [dataset |-> Current, states |-> Closed(epoch).states, answers |-> answers]

Disclose ==
  /\ run = "running" /\ phase = "close"
  /\ IF MayClose(epoch)
     THEN /\ epoch' = Released(Closed(epoch))
          /\ published' = Append(published, Publication)
          /\ disclosed' = disclosed \cup answers
          /\ phase' = "observe"
          /\ UNCHANGED <<outcome, settled, delivered, audited, ledgerRows, closed, at, answers,
                         job, ledgers, run, stops>>
     ELSE Raise

ToObserve ==
  {a \in UNION {Plan[u] : u \in pending} : settled[a] # None} \ observed

(* complete_calibration_observation; record raises without a reservation   *)
Observe(a) ==
  /\ run = "running" /\ phase = "observe" /\ a \in ToObserve
  /\ IF a \in reserved
     THEN /\ observed' = observed \cup {a}
          /\ unwritten' = Append(unwritten, a)
          /\ UNCHANGED <<root, closed, at, phase, epoch, answers, job, reserved, pending,
                         run, disclosed, stops>>
     ELSE Raise

(* The rows are written once all are observed.                             *)
WriteRow ==
  /\ run = "running" /\ phase = "observe" /\ ToObserve = {} /\ unwritten # <<>>
  /\ ledgerRows' = Append(ledgerRows, Head(unwritten))
  /\ unwritten' = Tail(unwritten)
  /\ UNCHANGED <<outcome, settled, delivered, audited, published, closed, at, phase, epoch,
                 answers, job, reserved, pending, observed, run, disclosed, stops>>

EndDataset ==
  /\ run = "running" /\ phase = "observe" /\ ToObserve = {} /\ unwritten = <<>>
  /\ pending' = {} /\ at' = at + 1 /\ phase' = "start"
  /\ UNCHANGED <<root, closed, epoch, answers, job, reserved, unwritten, observed,
                 run, disclosed, stops>>

-------------------------------------------------------------------------------
(* Stops and continuations                                                 *)

Stop ==
  /\ run = "running" /\ stops < MaxStops
  /\ run' = "stopped" /\ stops' = stops + 1
  /\ Started(NoService) /\ closed' = {} /\ answers' = {} /\ reserved' = {} /\ pending' = {}
  /\ UNCHANGED <<root, disclosed>>

Finalised == {u \in Units : outcome[u] # "PENDING"}
RowsOf(d) == {i \in DOMAIN ledgerRows : ledgerRows[i] \in Planned(d)}
Required(d) == Plan[CalibrationUnit[d]]
FullyCalibrated(d) ==
  /\ Cardinality(RowsOf(d)) = Cardinality(Required(d))
  /\ {ledgerRows[i] : i \in RowsOf(d)} = Required(d)

(* checked_manifest and validate_closed_datasets                           *)
AcceptableUnlessPublished(done, shut) == published = <<>> /\ shut = {}
AcceptableIfClosed(done, shut) ==
  \A d \in shut : UnitsOf(d) \subseteq done /\ FullyCalibrated(d)
Acceptable(done, shut) ==
  /\ published # <<>> => shut # {}
  /\ shut # {} =>
       /\ Len(published) = Cardinality(shut)
       /\ \A d \in shut : UnitsOf(d) \subseteq done /\ FullyCalibrated(d)

(* restore: rows of units that are not completed are dropped; publications *)
(* are kept if datasets are closed; calibration jobs that are not done are *)
(* reserved and queued again.                                              *)
Kept(done) == UNION {Plan[u] : u \in done}
RetainedAuditsNone(done) == {}
RetainedAudits(done) == audited \cap Kept(done)
RetainedPublications(shut) == IF shut = {} THEN <<>> ELSE published
RestoredJobsOfAll(done, shut) ==
  {u \in done : u = CalibrationUnit[DatasetOf[u]] /\ outcome[u] = "MEASURED"}
RestoredJobs(done, shut) ==
  {u \in done : /\ u = CalibrationUnit[DatasetOf[u]]
                /\ outcome[u] = "MEASURED" /\ DatasetOf[u] \notin shut}
ReservingOfPending(units) == Kept(pending)
Reserving(units) == UNION {Plan[u] : u \in units}

Continue(done, shut) ==
  /\ run = "stopped" /\ Acceptable(done, shut)
  /\ run' = "running" /\ closed' = shut
  /\ outcome' = [u \in Units |-> IF u \in done THEN outcome[u] ELSE "PENDING"]
  /\ settled' = [a \in Assignments |-> IF a \in Kept(done) THEN settled[a] ELSE None]
  /\ audited' = RetainedAudits(done)
  /\ delivered' = delivered \cap done
  /\ published' = RetainedPublications(shut)
  /\ answers' = {u \in delivered \cap done : Plan[u] # {}}
  /\ pending' = RestoredJobs(done, shut)
  /\ reserved' = Reserving(RestoredJobs(done, shut))
  /\ Started(settled')
  /\ UNCHANGED <<ledgerRows, disclosed, stops>>

(* No manifest of the stopped run is acceptable.                           *)
Refuse ==
  /\ run = "stopped"
  /\ \A shut \in SUBSET Datasets : ~Acceptable(Finalised, shut)
  /\ run' = "refused"
  /\ UNCHANGED <<root, process, disclosed, stops>>

-------------------------------------------------------------------------------
UnitStep(u) == Hold(u) \/ Unissued(u) \/ Issue(u) \/ FinishUnit(u)
AssignmentStep(a) ==
  Begin(a) \/ Observe(a) \/ \E status \in Settlements : Admit(a, status)
Step ==
  \/ SkipDataset \/ StartDataset \/ NextPhase \/ Finish
  \/ Disclose \/ WriteRow \/ EndDataset
  \/ \E u \in Units : UnitStep(u)
  \/ \E a \in Assignments : AssignmentStep(a)
Continuation ==
  \/ \E done \in SUBSET Finalised : \E shut \in SUBSET Datasets : Continue(done, shut)
  \/ Refuse

Next == Step \/ Stop \/ Continuation

(* A process that is not cut short goes on; nobody has to continue it.     *)
Spec == Init /\ [][Next]_vars /\ WF_vars(Step)

-------------------------------------------------------------------------------
(* Properties                                                              *)

StateMaps    == UNION {[ids -> EpochStates] : ids \in SUBSET Assignments}
Publications == [dataset: Datasets, states: StateMaps, answers: SUBSET Units]
Outcomes == {"PENDING", "HELD", "UNISSUED", "MEASURED"}

(* Every variable has its type; one unit and one assignment at a time, the *)
(* assignment one of the unit's.                                           *)
TypeOK ==
  /\ outcome \in [Units -> Outcomes] /\ settled \in [Assignments -> Settlements \cup {None}]
  /\ delivered \subseteq Units /\ audited \subseteq Assignments
  /\ published \in Seq(Publications) /\ ledgerRows \in Seq(Assignments)
  /\ run \in {"running", "stopped", "raised", "refused", "done"}
  /\ closed \subseteq Datasets /\ at \in 1..(Len(DatasetOrder) + 1)
  /\ phase \in {"start", "core", "bridge", "close", "observe"}
  /\ epoch \in [states: StateMaps, closed: BOOLEAN, published: BOOLEAN]
  /\ answers \subseteq Units
  /\ unit = {} \/ \E u \in Units : unit = {u}
  /\ serving = {} \/ \E a \in Assignments : serving = {a} /\ \E u \in unit : a \in Plan[u]
  /\ service \in [Assignments -> Settlements \cup {None}]
  /\ reserved \subseteq Assignments /\ pending \subseteq Units
  /\ unwritten \in Seq(Assignments) /\ observed \subseteq Assignments
  /\ disclosed \subseteq Units /\ stops \in 0..MaxStops

(* No legal schedule, with any number of stops and continuations, runs     *)
(* into a check of the epoch or of a calibration ledger: nothing begins    *)
(* twice, nothing is observed that was not reserved, and closing never     *)
(* meets a running assignment.                                             *)
NothingRaises == run # "raised"

(* No assignment of a dataset is served once probe answers of one of its   *)
(* units were published, by this run or by any run before it.              *)
NoServiceAfterDisclosure ==
  \A a \in serving : \A u \in unit : \A v \in disclosed : DatasetOf[v] # DatasetOf[u]

(* A publication gives every planned assignment of its dataset the status  *)
(* it settled with in the unit's durable row, NOT_ACTIVATED if it has      *)
(* none: what disclosure_findings of f_rq_audit.py reconciles.             *)
PublishedAsSettled ==
  \A i \in DOMAIN published :
    LET p == published[i]
    IN  /\ DOMAIN p.states = Planned(p.dataset)
        /\ \A a \in DOMAIN p.states :
             p.states[a] = IF settled[a] = None THEN "NOT_ACTIVATED" ELSE settled[a]

(* A publication holds the probe answers of every unit of its dataset that *)
(* was served, whichever run served it.                                    *)
AnswersComplete ==
  \A i \in DOMAIN published :
    \A u \in UnitsOf(published[i].dataset) :
      outcome[u] = "MEASURED" /\ Plan[u] # {} => u \in published[i].answers

(* A calibration row is of a settled assignment whose dataset had been     *)
(* disclosed, and no assignment has two rows.                              *)
CalibratedOnceAfterDisclosure ==
  \A i \in DOMAIN ledgerRows :
    /\ settled[ledgerRows[i]] # None
    /\ \E k \in DOMAIN published : ledgerRows[i] \in DOMAIN published[k].states
    /\ \A k \in DOMAIN ledgerRows \ {i} : ledgerRows[k] # ledgerRows[i]

(* What scoped_result_audit.py requires of the effective log, whatever a   *)
(* continuation copied of it: an assignment is published after its audit   *)
(* was drawn from its committed report, as it settled, with every answer   *)
(* of its unit; no dataset is published twice, and a study that ends has   *)
(* disclosed every dataset, in order.                                      *)
PublishedAfterAudit ==
  \A i \in DOMAIN published :
    LET p == published[i]
    IN  /\ {a \in DOMAIN p.states : p.states[a] # "NOT_ACTIVATED"} \subseteq audited
        /\ \A k \in DOMAIN published \ {i} : published[k].dataset # p.dataset
DoneMeansDisclosed ==
  run = "done" =>
    /\ Len(published) = Len(DatasetOrder)
    /\ \A i \in DOMAIN published : published[i].dataset = DatasetOrder[i]
EffectiveLogComplete ==
  PublishedAsSettled /\ AnswersComplete /\ PublishedAfterAudit /\ DoneMeansDisclosed

(* A stopped study can be continued, unless it published a dataset whose   *)
(* calibration is not complete in the ledger file.                         *)
RefusedForCause ==
  run = "refused" =>
    \E i \in DOMAIN published : ~FullyCalibrated(published[i].dataset)

(* A run does not go on for ever: it ends, or something cuts it short.     *)
RunEnds == run = "running" ~> run # "running"
===============================================================================
