# SEVC: specification and proofs

SEVC is a Python research system for paid verification of collaborative
training.  A trainer commits to a training trajectory cut into segments; an
*owner* hires *verifiers* to replay segments, hides *probes* with known answers
among the production segments, pays or slashes by the probes, and settles a
training job by a committee of verifiers who passed.  When members time out or
fail their probes, a *recovery* controller activates further identities.  Runs
are long campaigns over datasets that may be stopped and continued; what they
record is judged afterwards by gates and studies.

The repository has 38 000 lines of Python under `src/sevc`.  This directory
holds TLA+ modules for the parts with state, order, money or a decision in
them, TLC configurations that check them on small instances, and proofs of the
main results for every instance.  Tensor programs enter as the values they can
produce.

## 1. Inventory

| Component | State | Operations | Hard behaviour |
|---|---|---|---|
| `committee/recovery_game.py` | unused identities, passes per job, failures; the policy's memory of guaranteed jobs | `certify`, `_construct`, `rc_round`, `exact_round`, `matching_round`, `simulate`, `offline_maximum` | an adversary picks who fails after the plan is fixed; a greedy construction must never lose a promise made earlier |
| `committee/executed_recovery.py` | activations, reports, statuses, usage, reserved expenditure, decisions | `execute_recovery` and its `activate_many`, `execute_member`, `collect` | real callbacks on several lanes, timeouts, a deadline, a budget per job, a callback that raises mid-wave |
| `committee/executable_recovery.py` | none (plans from published events) | `execution_certificate`, `select_executable_action`, `select_filtered_action` | a shield over a heuristic must lose nothing that was guaranteed |
| `committee/formation.py`, `reliability.py` | a genetic population, a posterior | majority success, three formations, completion predictors | greedy minimality, a search that must not lose its best, a prediction that must follow from what is seen |
| `committee/depol_arbitration.py`, `verification/depol_local.py` | committed, revealed, closed | `commit`, `reveal`, `expire`, digest and distance arbitration | order of commit and reveal, copying, expiry |
| source bank and task compilation: `verification/on_demand_service.py` | sources on scratch, one task per source, resident bytes | `build_source_bank`, `compile_one` and its mapping over lanes | lanes that share a byte budget and a disk; a task that fails among running ones |
| `core/task_lanes.py` | an executor and a window of futures | `map`, `close`, `shared_wall_charges` | bounded in-flight work, results in input order, failure without detached work |
| `core/scratch_budget.py`, `scratch_cleanup.py`, `tensor_storage.py` | files on a scratch disk, a budget, pending cleanups | guarded save, seal and release, authenticated load | check-then-write under lanes, files still mapped, NFS leftovers |
| `verification/disclosure.py` | states of planned assignments, closed, published | `covers`, `begin`, `finish`, `close`, `release` | answers must not leave while a related assignment can still run |
| study lifecycle: `experiments/scoped_five_rq_units.py`, `local_tiny_feasibility.py`, `submission_tiny.py`, `verification/on_demand_service.py` | unit rows, append-only logs, calibration ledgers, the disclosure epoch | schedule, hold, issue, serve, admit, finish, publish, observe | long runs, resource holds, three subclasses hooking into one lifecycle |
| continuation: `experiments/submission_continuation.py` | a manifest and the logs of the predecessor | `checked_manifest`, `restore`, `validate_closed_datasets` | a crash between any two appends; what partial work may be kept |
| `reputation/calibration.py` | reservations, observations | `reserve`, `record`, `production_admissible` | a budget with a tolerance; admission by exact confidence bounds |
| `verification/reference_acquisition.py` | cache of owner receipts | `acquire`, `acquire_probe_sources` | early stop; which sources become probes |
| paid service of a source group: `OnlineJob`, `paid_replay_service.py`, the unit loop of `scoped_five_rq_units.py` | the group's targets, templates of preparations, folders, a job's receipts | prepare, reuse, serve, audit, settle, decide, release | preparations shared between jobs, two settlements merged, coalitions that know the trainer's sources |
| `verification/production_audit.py` | a transcript of nine states; a secret and a used flag | advance, commit, open, settle | commit before challenge, single opening, refused calls |
| `verification/verifier_task_policies.py`, `verifier_behaviors.py` | bundles, reports, adjudications | assign, report, adjudicate, majority, threshold score | replays that do not repeat, verdicts withheld or copied |
| `verification/verifier_replay_bank.py` | a cache of replays, published rows | build, use, characterize, publish, read | rows that stand for replays of another device or source |
| `verification/replay_coupled_probes.py` | a task and its identities | compile a production task, a control, a challenge; replay | a challenge must fail a replay and nothing else; permutations, rounding |
| `verification/methods.py`, `robust_aggregation.py` | none | score, accuse, select, aggregate | ties, nonfinite losses, what is left out must have no influence |
| `incentives/verifier_reserve_recovery.py` | rosters, an escrow ledger | rosters and their certificate, `issue`, `settle`, reconstitution, joint matching | conservation over waves, a fast path for an exhaustive search |
| `incentives/verifier_roster_certification.py`, `verifier_protocol.py` | records | certified capacity for one and several jobs | what a certificate says of responders must be true |
| `evaluation/rcmp_gates.py` | evidence | binomial gates, overhead screen, selectors, verdict | bounds that err as rarely as they claim, cross-fitting |
| `evaluation/tdsc_failure_scale_simulation.py`, `tdsc_direct_execution.py` | capacity per member, transfers | tasks over slots, chunked transfers, routes of the methods, the safety gate | capacity shared by tasks, retries, claims about independent members |
| `experiments/tdsc_system_overhead.py`, `evaluation/tdsc_system_overhead.py` | phases of a job, rows, gates | time, sum, compare, gate, route | moments counted twice, rows lost in a sum, a verdict without a cause |
| `core/artifacts.py`, `runtime.py`, `role_accounting.py`, ... | none or counters | hashing, clocks, devices | I/O |
| `training/`, `models/`, `data/`, `attacks/`, recognizers | tensors | training, partitions, classifiers | numeric |
| other `evaluation/` and `experiments/` | finished runs | audits, statistics, campaigns | offline |

How they interact.  `run_tdsc_five_rq_evidence` drives a study dataset by
dataset.  The study builds a source bank, makes an `OnlineJob` per unit, and
serves its assignments under a `ProbeDisclosureEpoch`; a recovery unit instead
passes a callback that serves one assignment to `execute_recovery`, which asks
a controller (a matching of `verifier_reserve_recovery`, or a policy of
`recovery_game`) whom to activate in each wave.  A job's tasks are made by the
probe compiler and delivered through scratch or memory; its calibration is paid
by the ledger of `reputation/calibration.py`; a native method runs the exchange
of `depol_arbitration` instead.  Everything durable goes to a run root of
append-only logs and one file per unit; a later run restores what a manifest
names.  Nothing is shared between processes but these files; within a process,
concurrency is `TaskLanes` only.  The simulations, the direct comparison and
the gates read what runs left.

### What makes each component correct

- *Recovery game.*  The policy never raises one of its own assertions; a job
  once guaranteed is completed as long as failures stay within the allowance;
  a planner that looks ahead keeps the value it certified, a shielded matching
  too; rounds are bounded.
- *Executed recovery.*  Reserved expenditure stays within the cap; an identity
  serves once; a result stays with its member whatever the lanes do; a decision
  has a quorum of passing, conclusive reports behind it and is never late; a
  job is deferred only for a cause; the call returns.
- *Escrow and certificates.*  What the owner has at stake is what its history
  says, and within the hard cap; a certificate is true of every set of
  responders it is about; the fast computations equal the exhaustive ones.
- *Disclosure and study.*  No assignment is served after related answers left;
  a publication states each assignment as it settled, after its audit was
  drawn, with all answers; calibration follows publication and happens once;
  a run that ends has disclosed everything; no check of the protocol fires.
- *Source bank, compile lanes, scratch.*  A job has every task or raises for the
  first that failed, and no lane works on after that; the resident counter is
  what the lanes keep and within the budget; scratch stays within its capacity;
  nothing is unlinked before it is sealed, and nothing is left at the end.
- *Source group.*  The probes are the first passing sources of a private order,
  all jobs of a group have the same targets, references are paid once and no
  audit answer enters a shared preparation; an honest verifier is paid, one that
  answers everything alike is not, and where a method claims it the route of the
  trainer is right.
- *Assignments, bank, audits.*  Nobody is blamed or paid for what the device
  did; a bank read back answers as the live one; a challenge opens once.
- *Exchange and aggregation.*  A disclosed report is the party's own; two
  replaying verifiers decide; what is left out of an aggregate has no part in it.
- *Studies.*  A bound errs as rarely as it claims; capacity, bytes and moments
  are counted once; a study that passes shows what it says.
- *Continuation.*  The above over any number of stops; a study is refused
  continuation for one reason only.

The full list of hazards, each at its line, with the properties that cover it,
is in `PROJECT.json`.

## 2. Modules

| Module | Models | Extends / uses |
|---|---|---|
| `RecoveryGame` | `Game`, `PublicState`, `Adversary`, one round of `simulate` | - |
| `ReserveCover` | `_construct`, `certify`, `rc_round`, `simulate` with value-preserving-rc | `RecoveryGame` |
| `ReserveProofs` | theorems about `ReserveCover`, `ReserveEscrow` and `ExactRecovery` | `SetSums` |
| `ExactRecovery` | the exact solver, play by it, the certificate, the shield, matching waves, the offline maximum; the auditor of `evaluation/recovery_enumeration.py` | `RecoveryGame` |
| `RecoveryContract` | what one call of `execute_recovery` promises, abstractly | - |
| `ExecutedRecovery` | `execute_recovery` with `TaskLanes.map`; `required_passes`, reconstitution, joint matching, fixed order | implements `RecoveryContract` |
| `ExecutedRecoveryProofs` | theorems about `ExecutedRecovery`, the refinement among them | |
| `ReserveRoster` | rosters, orders, removal certificate, waves and reconstitution of `verifier_reserve_recovery.py` | - |
| `ReserveEscrow` | its escrow: lock, issue, settle, reconstitute, decide, close | `ReserveRoster` |
| `RosterCertification` | `verifier_roster_certification.py`: the smallest roster with a certificate | `ReserveRoster` |
| `CommitteeFormation` | greedy, historical and genetic formation; prediction of completion | - |
| `DisclosureEpoch` | `ProbeDisclosureEpoch` as operators on a record | - |
| `ServiceStudy` | the study lifecycle, stops and continuations | `DisclosureEpoch` |
| `ServiceStudyProofs` | theorems about `ServiceStudy`, `PaidCalibration` and `NativeArbitration` | `SetSums` |
| `PaidCalibration` | `PaidCalibrationLedger` with its bounds | - |
| `LanesContract` | what `TaskLanes.map` promises its caller | - |
| `CompileLanes` | `build_source_bank`, `compile_one` on `TaskLanes`, the resident budget, the scratch guard | implements `LanesContract` |
| `CompileLanesProofs` | theorems about `CompileLanes`, the refinement among them, and about `ScratchCleanup` | `SetSums` |
| `ScratchCleanup` | seal and release of scratch directories with files still held | - |
| `JobMethods` | the methods registry, verifier behaviours, settlement, the committee's decision | - |
| `SourceGroup` | the unit loop of one source group: `OnlineJob`, `JobReferences`, `acquire_probe_sources`, service and admission | `JobMethods`, `DisclosureEpoch` |
| `SourceGroupProofs` | theorems about `SourceGroup` | |
| `ReplayProbes` | the compiler of production tasks, controls and challenges, and the replay | - |
| `ReplayBank` | the bank of replay proofs, published and read back | - |
| `VerifierAssignments` | bundles, behaviours, adjudication, majority and threshold settlement | - |
| `ProductionAudit` | the audit transcript; the committed challenge and its settlement | - |
| `VerifierAssignmentsProofs` | theorems about `VerifierAssignments`, `ReplayBank` and `ProductionAudit` | `SetSums` |
| `NativeArbitration` | a DePoL group: `NativeCommitments` and both arbitrations | - |
| `UpdateAggregation` | scoring baselines and robust aggregation of updates | - |
| `SlotRecovery`, `LinkTransfer` | the failure simulation: tasks over slots, chunked transfers | - |
| `DirectExecution` | the direct comparison of methods and its safety gate | - |
| `EvaluationProofs` | theorems about `DirectExecution` and `ReplayProbes` | `SetSums` |
| `StudyGates` | the gates of replay studies | - |
| `OverheadCampaign` | timing, sums, gates and routing of the overhead campaign | - |
| `SetSums` | lemmas on sums over finite sets, products, samples and binomial laws | - |

`MC*` modules give the constants values for TLC.  Four of them run several
components in one state space: the variable `part` says which one a behaviour
is about, and the variables of the others keep one initial value, which no step
changes.  The parts share no state in the code either, so that what a run
says of a part is what a run of its own would say; composing them saves no
interleaving and hides none.

### ReserveCover

A `Game` has, per identity, the set of compatible jobs, per job the number of
PASS reports it needs, and the failure allowance.  `publicState` is the code's
`PublicState` (with `failures` and `rounds`).  `phase` and `step` are the
program counter of `rc_round` and of the `_construct` it is in: `Check` is the
slack test before the loop, `Pick` one iteration, `Accept` and `Reject` its two
returns, `TryNext` the `for` loops of `certify` and `rc_round`, `Certified` and
`Planned` the assertions after them.  The loop is modelled step by step since
the proof is about what it maintains.  `slack` is not a variable: between two
picks the dictionary holds the value of `Slack`, and the theorem
`NoAssertionError` rests on that.  Ties are broken as in the code, by the sort
keys.  `Play` lets the adversary fail any subset of the wave whose size keeps
the failures within `allowance + ExcessFailures`: every adversary of the code
chooses such a subset (the static one whatever its set, the adaptive ones
within a budget).  `attempt_cap` is `None` for this policy and left out here.

### ExactRecovery

`Cache` is the solver's `lru_cache`, filled layer by layer in the number of
remaining identities (`Over` lays a layer over those below); it is a constant,
which `ExactAssumption` says is the cache of these games, so that a run computes
it once.  `RankOf` is the sort key as one number; it needs the jobs numbered
from 0, as the code's are.  `Certify` is the
certificate of the first position, `PlayTurn` one turn of the loop that has
somebody to assign, `EndPlay` its two exits.  The controllers are the exact
planner with and without the admission gate, the matching with and without the
shield, and the matching waves, whose augmenting search is modelled call by
call (a recursive function of the job and of the owners and the identities
seen).  Of the joint matching that proposes to the shield only this is kept:
it proposes some assignment whenever one is possible.  So the shield is checked
against every proposal.  `cap` is the budget counted in assignments, and
`attempt_cap` of `simulate`.  `Audited` translates the auditor of
`recovery_enumeration.py`, which solves the game over sets of possible failures
and not over their number.

### ExecutedRecovery

`setup` is the arguments of the call that matter: controller, conflicts,
missing identities, lanes, cap, reserve per assignment, prepaid cost,
`minimum_pass_count` (0 or 3, the two that `select_global_recovery_matching`
accepts with a quorum of three).  `clock` says whether the time is before, at or after the
deadline; `Tick` may fire between any two steps.  `queue` is the set of the pairs
of the wave not yet reserved, which are taken in the order of their jobs and
identities; a selection is a set of pairs, exactly one for a state; `ready` and `results` the ones reserved.  With one lane
a pair runs as soon as it is reserved, with more when the wave is reserved, as
`activate_many` does; `Finish` completes any submitted member, in any order,
within the window of `TaskLanes.map`; `Collect` is `collect`.  `Review` is one
turn of the `for` over the jobs, `NextWave` the rest of the loop: selection by
the controller, budget filter, activation or `break`.  `MemberRaises` is the
callback raising, or breaking the reserved transfer terms.

Abstracted: times to three values; a report to a verdict per segment, one
report standing for all reports of members that did not pass; fees to the
reserve per assignment; probabilities to integers scaled by 10^9 (the code's
floats for p = 0.9, exact to nine digits, given as the constant `Success`, which
an `ASSUME` compares with the definition of `majority_success_probability`).
The certificate is the flag `preDefer`.  The controllers of
`executable_recovery.py` are in `ExactRecovery`, without this loop's deadline.

### ReserveRoster, ReserveEscrow, RosterCertification

A reputation is a number of parts of `Scale`, so a committee of n succeeds with
a whole number of parts of Scale^n and no probability is rounded.  `ledger` is
the record of the code's ledger; `Lock`, `Issue`, `Settle`, `Reconstitute`,
then `Activate` or `Abstain`, and `Close` are the library's functions in the
order their own checks impose, job after job.  What calls them is not in the repository.  A
certificate is computed in one call, so a behaviour of `RosterCertification` is
the rosters that are built and the answer; its properties compare the answer
with the sets of responders it is about, enumerated.

### CommitteeFormation, UpdateAggregation

Reliabilities are tenths.  The greedy formation takes a committee that reaches
the threshold (`>=`), the genetic search counts those above it (`>`), as in
the code.  A generation keeps its best, crosses two at a point and mutates; the
model enumerates what the random generator can draw.  A predictor is a pair of
whole numbers; its clamps are the constants `MeanFloor`, `IccFloor` and
`IccCeiling`.  In `UpdateAggregation` an update is a point of the plane relative
to the anchor, an average <<x, y, weight>>; accuracy and loss are given
functions of an average.

### ServiceStudy

The variables are in three groups: the run root, which outlives the process
(`outcome`, `settled`, `delivered`, `audited`, `published`, `ledgerRows`); the
process (`at`, `phase`, `epoch`, `answers`, `unit`, `serving`, `service`, the
calibration state); and two observers of the world, `disclosed` (what any run
has ever published) and `stops`.  `StartDataset` is `run_dataset` of
`SubmissionTinyStudy` in its core phase, which replays the epoch over restored
units; `Hold`, `Unissued`, `Issue`, `Begin`, `Admit`, `FinishUnit` are what a
unit goes through; `Disclose`, `Observe`, `WriteRow`, `EndDataset` are
`run_calibration`.  `Stop` is any exception or crash, at any step.  `Continue`
is a new process that restores from a manifest of `done` units and `shut`
datasets.

The manifest is written outside the repository.  The model lets it be anything
`checked_manifest` and `validate_closed_datasets` accept, truthful about
whether answers were published, with any subset of the finished units.
Modelled is the claim-linked mode with dataset-scoped disclosure; not the
run-wide publication of `run_cpu`, the per-job epochs of `owner_cost_repair`,
native or DePoL units, or the reuse of prepared jobs.  Hashes of predecessor
files and the replay environment are taken to match.  `Admit` is atomic: the
audit row, the settlement and `finish` are consecutive statements of one thread
and a stop between them leaves a unit that is not retained.  The nine
identities of a calibration unit are `Plan` of the unit: `len(rows) != 9` is
compared with its size.

### PaidCalibration

`Reserve` and `Record` are the ledger's methods with their guards; the order
in which a study calls them is `ServiceStudy`.  The beta quantile is not
computed: a bound is at least p exactly when k or more of n successes of
probability p have probability at most alpha, which is a sum of whole numbers.

### CompileLanes

`main` is the place of the constructor's thread: building the bank, calling the
items itself (`inline`, one lane), or in the loops of `TaskLanes.map`.
`submitted` and `taken` give the window: its futures are the tasks from
`taken + 1` to `submitted`.  `task` is where each task is: on the pool's queue,
in `compile_one`, saving, delivered in one of four ways, failed or cancelled.
The steps of lanes interleave with each other and with the main thread at the
points where they share something: the queue, the resident counter, the disk.
`CompileRaises` stands for every `raise` of `compile_one`; `SaveRaises` for the
three ways a save fails, one of which leaves part of the payload on disk.

A payload is its number of bytes; serialization adds any number up to
`MaxOverhead`, which the instance makes larger than `Reserve`, so that the check
after the write matters.  `LimitSeenByLane` is the `ContextVar`: a thread of the
pool does not run in the context of the thread that submits, so only with one
lane does `compile_one` see the guard.  Other writers to the scratch root, CUDA
streams and the probes generated by `gold_factory` are left out.

### ScratchCleanup

A directory is released by `seal` (its hashes are logged) and `rmtree`, one step
per entry, in any order a listing can have.  A file that is still mapped
becomes a tombstone when it is unlinked and goes when its holder lets go, which
may be at any moment: before the listing, between listing and `rmdir`, after the
error.  A release that fails is remembered and tried again when the study
completes.

### SourceGroup

`JobMethods` has what is a function: `MethodOf` is the registry, `Verdict` what
`execute_assignment` answers for a task, `Status` is `score_threshold_report`
over the probes merged with the audit as `_admit` does, `Decision` is
`required_segment_decision` over the reports that passed.  A task is named by
its source; a source is a probe or production of a job, never both, and the
position of a probe in the selection makes it a control or a challenge.  The
owner compiles a challenge only if its replay fails and the canonical proof of a
production task or a control is the trainer's, so a joint verifier recognizes
these unless the task shows an opaque handle.  `hunch` is what a verifier goes
by instead of a replay: the tasks a partial one replays, those a public test
accepts, the target of a targeted reject.  It is drawn once per unit, since all
verifiers of a unit have its seed.

`SourceGroup` runs the units.  `StartUnit` picks the next one in the order of
`order_source_group`; `TrySource` is one turn of `acquire_probe_sources` (or one
gold source), in the fixture job or the unit's own; `FixtureDone`, `Prepared` and
`Prepare` settle the targets; `Reuse` is `reuse_preparation`; `Serve`, `Draw`,
`Audit`, `Settle` are `OnlineJob.serve` with `_admit`, `Audit` once per reference
as the owner's lanes acquire them in any order; `FinishUnit` closes the epoch,
writes the row and releases folders.  `passes` says which sources replay, and
never changes: replays are deterministic within the verification tolerance, and
the trainer's own record of its sources agrees with them.  One of the owner's
gold sources may fail.  `given` is a history of the receipts a job started with.

Left out: recovery units, `M0` units, which only prepare, probe diagnostics,
special units, units that are held or reuse a finished row, the injected report
fault, native protocols, shared epochs.  `rcmp-*` variants that differ in how a
challenge is mutated, wrapped or padded are one method.  The order of units of
one method by package is taken to be the order they are listed in.

### ReplayProbes

Tensors are functions from index tuples to integers and a hash is the sequence
of what was fed to it, so two hashes are equal exactly when the code feeds the
same values in the same order.  `tensor_state_sha256` sorts the names of a state
before it feeds its tensors, so `Feed` hands over the position and the state.  A proof has a state per step and momenta; the
permutation of hidden channels acts on every tensor that has the dimension.
The gradient is an external function that treats hidden channels alike.  A
source is recorded as trained or with one of the flaws a trainer can leave;
`CompileTask` makes a production task, a control or a registered challenge of
it, `ExamineTask` is what the owner checks of one, `GarbleDescriptor` lets the
verifier have another descriptor than the owner's, `AnswerTask` inverts, replays
and compares.  From `Coarse` on, values step by `Grain`, as
floats do: a mutation can be swallowed.

### ReplayBank, VerifierAssignments, ProductionAudit

`ReplayBank` lets a segment be used in any order before and after the bank is
characterised, publishes the rows, and reads rows of which any field may be
another characterisation's.  `VerifierAssignments` draws bundles, reports under
each registered behaviour and settles by adjudication, majority or threshold;
replays that do not repeat are in the block (`replay` and `rerun` differ).
`ProductionAudit` has both protocols of the file: the transcript of nine states,
and the challenge the service commits to.  Calls may come in any order and
again, also those that are refused.  `AuditBinds` is an action property: it says
what no call may change, and what the challenge and the receipt amount to after
each call.

### NativeArbitration

The code runs each exchange in one order; here the parties commit and reveal in
any order `NativeCommitments` accepts, may stop, and may copy what they saw.  A
commitment binds to a report and shows nothing else.  The code's digest floors
random projections of the weights, drawn anew for each interval; here each
interval has any of the functions `Hashes` of a checkpoint, so checkpoints far
apart may collide and near ones differ.  The width of the cells, which only
decides how likely that is, is left out.

### SlotRecovery, LinkTransfer, DirectExecution

A task asks the members of its roster; each attempt is a row with its route.
Every task is evaluated twice, without and with capacity.  `LinkTransfer` sends
one chunk per step, with any pattern of losses.  `DirectExecution` decides each
trace under each registered method, then again under every smaller reserve,
then judges the dataset.

### StudyGates, OverheadCampaign

A behaviour of `StudyGates` is one piece of evidence and what its gate makes of
it.  `OverheadCampaign` times a job in phases, or sums a ledger, or routes a
campaign; `activity` says which.

## 3. Runs

`reserve_cover` (`MCReserveCover`): every game on four identities and two jobs,
needs up to two, allowance up to two, one failure beyond the allowance, 217 000
states.  Four identities allow a guaranteed job, a second one competing for its
reserve and a failure; two jobs are the code's own number, and the assertions
involve two jobs at a time.  `MaxRounds = 4` is allowance plus jobs, the
condition under which `GuaranteeHonoured` is claimed.

`executed_recovery` (`MCExecutedRecovery`): seven calls on seven identities and
two jobs with two primaries each: joint matching with one and two lanes,
with missing members, conflicts and a tight budget; joint matching with
`minimum_pass_count` zero; fixed order on two lanes; no recovery; a call
deferred by its certificate.  133 000 states.  The quorum is the code's three,
so a committee needs a recovery wave even if nobody is missing, and a missing
primary needs two.  `StopsForCause` joins `NoDuplicateActivation` (the code's own
guard never fires) and `DeferredForCause`.

`deadline_overrun` (`MCDeadline.cfg`) checks the assertion of the trace audit
(`recovery_enumeration.py:222`, and the count in `f_rq234_audit.py:464`) that a
trace with a decided job ends by its deadline, and finds it violated: the
deadline is compared before a member is reserved, at the decision and between
waves, so the second job's wave may end late after the first job was decided
in time.

`service_study` (`MCServiceStudy`): two datasets; the first with a calibration
unit of two identities and a bridge unit whose recovery may leave its reserve
alone, the second with a calibration unit and a unit without assignments; up to
two stops, each anywhere.  377 000 states.  Two stops are needed for a restored
unit to be restored again and for a half written calibration to be met by a
second continuation.  `CHECK_DEADLOCK FALSE`, as a study may end, be refused or
not be continued.

`compile_lanes` (`MCCompileLanes`): eight jobs of two to five tasks on one, two
and four lanes, 13 000 states.  More tasks than lanes make the window slide,
fewer end the first fill early; the budgets keep some payloads and not others in
every order; tasks fail while others are queued, running, saving and done.
`BudgetsHold` joins `ResidentAccounted` (memory) and `GuardHoldsInline` (disk).
`CHECK_DEADLOCK FALSE`, as the constructor returns; `Ends` says that it does.

`scratch_guard` (`MCScratchGuard.cfg`) checks that the guard "fails closed"
(`scratch_budget.py:1`) for any number of lanes, and finds it violated on two: no
save made on a lane is checked.  The repository's own configurations compile on
one lane, where `GuardHoldsInline` shows that the guard holds.

`source_group` (`MCSourceGroup`): twelve groups of one to four units over six
sources, four probes and two targets, any subset of the sources bad, 321 000
states.  The plans put comparators before and after RCMP jobs, reuse
preparations across other methods' units, release them early or at the end, and
give every behaviour to a method that should see through it and to one that need
not.  Two controls and two challenges are the fewest that a threshold of two can
tell from a constant answer; two targets let an audit see one and miss one;
three verifiers are the code's quorum.  `GroupPrepared` joins
`ReferencesPaidOnce`, `PreparationSound`, `AuditsStayOut` and `SameProduction`;
`PaidForReplay` joins `HonestPasses` and `NoFreeRide`.  `CHECK_DEADLOCK FALSE`, as
a group ends or raises; `Ends` says that it does.

`reserve` (`MCReserve`, 239 000 states), in five parts; `EscrowAccounted` and
`WithinHardCap` are about the escrow, `CertificateSound` joins what the others
promise, `RecordsSound` of the certificates among them.

- *recovery*: games on five identities and two jobs with needs (1, 2) and (2, 2)
  and allowance zero to two, one failure beyond it.  The code registers nine
  identities, three reports and an allowance of two; what can go wrong (a flexible
  identity spent where a scarce one would do, a matching that has to move one, a
  failure that leaves exactly enough) needs two jobs that share identities and
  more of them than reports.  Compatibilities are taken up to the order of the
  identities, the flexible ones first, so that matchings must move them.
  `PromiseHeld` is claimed when the cap pays for every identity, as the
  certificate asks; a cap of two shows that filters and exits are met too.
- *escrow*: recoveries of one or two jobs on a roster of five under all three
  activation policies, waves of one or two, absent members, a conflict, capacity
  shared in waves of one or two, multipliers that set the hard cap from refusing
  the first wave to never, every settlement of every assignment.  All
  published counts are zero but one (below, "activation order").
- *certificate*: rosters of up to five with reputations from distinct ones to
  ties, below and above one half, removals up to two; four members with every
  small combination of capacities and conflicts for two and three jobs.
- *formation*: committees of up to five identities by the greedy, of up to three
  by the historical formation; the genetic search with a population of three, one
  generation and one mutation, from every triple of four founders; predictions
  over up to four members.  The clamps of the predictors are 1/6 and 3/4 here
  (1e-9, 1e-6 and 0.95 in the code), so that small cases meet them.
- *updates*: one to six updates on a line where distances are taken, three in the
  plane for a trusted update, every replay result, losses with nonfinite ones.

`assignments` (`MCAssignments`, 1 583 000 states): three verifiers of one job on
two production segments and three sentinels with every mix of the registered
behaviours and blocks whose replays do and do not repeat; nine policies, among
them ones that admit no set of differing bundles.  A bank of four segments, with
every field of a published row exchanged.  Reports on four production tasks and
three probes, with at most two tasks unanswered, and every sequence of audit
calls up to the bound of the model.

`paid_service` (`MCPaidService`, 383 000 states): a budget for four of five
calibration assignments, the fifth one unit too expensive, fees of the most that
may be charged and of one unit more; at 6/10 and alpha
2/10 admission is first possible after four trials.  A group of two intervals
with checkpoints on a line of five points and two digests, under which a trainer
three points away in one interval has the digests of the replay and one a point
away has others.  Two scratch directories, the first
with two folders, and five files, of which any subset is held.

`tombstones` (`MCTombstones.cfg`) checks the first line of `scratch_cleanup.py`,
that open NFS tombstones are tolerated, and finds it violated: `rmtree` stops at
the directory the tombstone is in, files in the folders it had not reached
remain, and the release raises.  It raises too when the tombstone goes between
the failed `rmdir` and the listing, as then nothing remains to explain the error.

`evaluation` (`MCEvaluation`, 239 000 states), in six parts.

- *trace*: three tasks over six members, every registered method, reserves of up
  to two, capacities one and two, every set of responders of three sizes.
- *link*: two payloads in chunks with a shorter last one, every pattern of losses.
- *direct*: one or two traces per state, every result of their sources.
- *probes*: twenty sources of up to four steps on three plus two hidden channels
  and seven setups.  Three channels are the fewest with a permutation that is not
  its own inverse.  Magnitude and tolerance are in the registered proportion of four
  to one (4e-5 to 1e-5), so the three quarters that must survive rounding are
  the three tolerances a witness needs.
- *gates*: up to nine trials for the exact errors of the binomial bounds, which are
  checked against exact weights; studies of 6 to 60 blocks with up to two
  exceptional ones, where the registered confidence first becomes possible;
  bootstraps over two and three blocks and given draws.  Candidate thresholds of
  a selector are the values themselves, which separate as the code's midpoints do.
- *campaign*: four ticks and three phases, so that phases touch, overlap and leave
  gaps; up to four timing rows; three datasets and three draws.

What the runs show beyond the properties:

- With `minimum_pass_count` zero the joint matching refuses a second report,
  since a majority of two (0.81) is less reliable than one report (0.9); such a
  call defers with identities left.  The comment in `execute_recovery` (lines
  133-136) repairs this for the all-response sets only.  `DeferredForCause`
  leaves these calls out.  With a quorum other than three the repair does not
  work either: it sets `minimum_pass_count` to the quorum, and
  `select_global_recovery_matching` raises for anything but 0 or 3, so the call
  raises at its first selection.  And with a quorum of seven and a
  `minimum_pass_count` of three the matching stops at three reports with
  identities left, as the quorum is not in its keys.  Neither is modelled; the
  repository's own configurations have a quorum of three.
- A calibration unit that was held or not issued leaves its dataset with fewer
  than nine rows.  The run goes on and publishes; if it stops later, no
  manifest is acceptable any more.  `RefusedForCause` says that this (and a
  stop between publication and the last row) is the only way to lose a study.
- A job over budget may take part in a matching and take a shared identity from
  the other job, then be filtered out; the other job is deferred for it.
  `DeferredForCause` therefore names the budget of either job as a cause.
- A committee of the historical formation is always a single identity: a pair
  must both succeed, and one that does has a member that is enough.
- FLTrust divides by the sum of its weights after scaling each update to the
  trusted norm, so the aggregate need not have that norm; `AggregateOfSelected`
  claims the side of the trusted update only.
- With equal scores every model is accused (`AccusesFew`).
- Activation order.  `recovery_invariant_counts` says it returns "machine-checkable
  counts for PSRR safety/liveness invariants" (`verifier_reserve_recovery.py:1513`).
  With `capacity_aware` its count of the order compares a whole batch with one
  identity (lines 1562-1563), so a wave of two that is "the next locked batch" of
  `next_reserve_activation_wave` (line 967) is published as a violation whenever
  two could be activated.  `CountsStayZero` therefore claims that every recovery is
  in order and that the count is nonzero for exactly these (`OrderAccused`).  No
  caller in the repository sets `capacity_aware`.
- Acceptance by digest bounds no distance: a trainer however far away is accepted
  if its digests collide with those of the replay and nobody dissents.  Only the
  distances hold an accepted trainer to the tolerance (`ReplayDecides`).
- With shared capacity a larger reserve may complete fewer tasks of a trace: what
  one task spends on its reserve the next one lacks.
- A matching without the shield does break what the exact planner could
  guarantee; its guarantee is `None` in the code, `Unknown` here.

Fairness.  `FairSpec` of `ReserveCover` is weak fairness of the whole loop: it
is sequential code.  In `ExecutedRecovery` only `Step` is fair: the loop runs
on and a waited-for member returns (a missing one after its timeout, a callback
because it is a call); neither time nor exceptions are owed.  In `ServiceStudy`
a process goes on until something cuts it short; nobody has to continue it.  In
`CompileLanes` it is the weakest assumption, that some thread that can run does:
every step brings the job nearer its end.  `SourceGroup` is one sequential loop,
weakly fair as a whole.  The composite runs state safety only: their parts are
sequential calls whose end is a state of the model, and no scheduling of theirs
is left open by the code.

## 4. Theorems

All theorems hold for every value of the constants that the named assumptions
allow.

`ReserveProofs`, the cover.  The inductive invariant says that between rounds each
owed job has as many compatible unused identities as open reports of all owed
jobs plus failures that may still come, and inside `_construct` that no slack
is negative once the loop runs, that assigned plus pending equals the deficits,
and that plans are disjoint and compatible.  The heart is that a job with an
open report and minimal slack always has an eligible identity: `NoAssertionError`
follows, that the greedy construction never fails on the jobs it owes, without
a search.  From the same invariant: `TypeCorrect`, `OwedStayRecertifiable`,
`PlansAreExact`, `RoundsAreBounded`, `RootGuarantee`, `GuaranteesPersist`.

`ExecutedRecoveryProofs`.  The invariant ties the wave's window (`ready`,
`results`) to activations and statuses: every activated identity either has a
result to come or has settled, a PASS has a report, a missing identity can only
drop out.  From it `WithinBudgetAlways`, `UsageIsSettled`, `MissingNeverVotes`,
`DecisionsHaveQuorum`, and `ContractKept`: `ExecutedRecovery` implements
`RecoveryContract`, step by step.  The selection is opaque in these proofs: they
hold for every controller, also one that selects identities twice.

`StopsForCauseAlways` is the third result there: the call defers for a cause
only, and never activates an identity twice.  `QueueInv` (a wave's pairs are
fresh and name no identity twice), `ReviewInv` (before the deadline a job that
was looked at is decided, or its reports do not decide it) and `OpenInv`
(nothing is deferred before the end) lead to the selection: a job with fewer
than three reports and an identity left has a larger key with one more
report, so a matching that leaves both out is not the best one.  This is the one
theorem of the module that looks into the selection.

`ServiceStudyProofs`.  `StudyInv` relates what the world has seen to the run
root: an answer is out only if its dataset's publication is in the log, a
published dataset is passed or closed, a passed dataset has all its units'
rows.  From it `NoServiceAfterDisclosureAlways` and `RefusedForCauseAlways`, over
any number of stops and continuations.  `LogInv` adds what the logs, the epoch and
the calibration ledger have in common: a settlement of a finished unit is in
the log, the epoch's states are those of the log, publications are in the order
of the datasets and state each assignment as it settled, rows are written once.
From both `NothingRaisesAlways` (no check of the protocol fires),
`EffectiveLogCompleteAlways` and `CalibratedOnceAlways`.

The calibration ledger.  `FundedInv` gives `CalibrationFundedAlways`.
`AdmissionEarnedAlways` needs more: that the lower bound which decides admission
is monotone and rarely wrong.  `TailAt` is a sum of binomial terms; `Tails` says
how one more trial moves it (Pascal's rule, `OneMoreTrial`), `TailsGrow` that it
grows with the probability of a success, by induction over the trials.  So a
success more, with or without a trial more, keeps a bound (`BoundRises`), hence a
better observation keeps an admission (`BetterAdmits`); and the numbers of
successes that admit are all those from one on, whose chance is largest at the
required level itself, where it is at most alpha (`RareAdmission`).

The native exchange.  `GroupInv`: a party's disclosed report is its own, distances
are compared only where somebody's digest differs from the replay's, and what has
been decided is what two replaying verifiers would decide.  It gives
`ExchangeFairAlways`, for any digests: nothing is assumed of collisions, and no
distance is claimed of an acceptance by digest.

`CompileLanesProofs`.  The invariant describes the window: what is submitted is
a prefix of the items at most `width` ahead of what is taken, the queue is a
suffix of it, and only a closing pool has cancelled tasks; and for each place of
the main thread what it may rely on.  From it `TypeCorrect`,
`OutcomeInOrderAlways`, `ResidentWithinLimitAlways`, `GuardHoldsInlineAlways`
and `ContractKept`: `CompileLanes` implements `LanesContract`.  `BudgetsHoldAlways`
adds that the resident counter is the sum of what the lanes keep, with the lemmas
of `SetSums`.

Scratch cleanup.  Each scratch directory has folders and files of its own
(`PathAssumption`).  `ScratchInv` says what is left of a directory at each point
of its removal (`TreeOK`, `RemovalOK`), that nothing is removed that was not sealed,
that a directory that was entered waits or is being removed, and that a finished
study left nothing.  It gives `CleanupSoundAlways`, for any number of
directories, folders and files, and holders that let go at any time.

`SourceGroupProofs`.  Four invariants.  `SearchInv` follows the search: what
was looked at is a prefix of the private order, the selection is its passing
part without repetition; `ServiceInv` carries this to the delivered job and to
every template; `PairInv` says that once the group has targets all its jobs,
templates and rows have them.  `ServedInv` says that a committed report is what
`Verdict` gives on the job's tasks and that each settled report is worth what
`ReportOK` promises.  From these `TypeCorrect`, `ReferencesPaidOnceAlways`,
`PreparationSoundAlways`, `AuditsStayOutAlways`, `SameProductionAlways` and their
conjunction `GroupPreparedAlways`; `HonestPassesAlways`, `NoFreeRideAlways` (no
method's threshold is above the two controls and two challenges that
`ProbesAssumption` asks for) and their conjunction `PaidForReplayAlways`; and
`RouteSoundAlways`, for any number of sources, probes, verifiers and units.
`DiskInv` (a template's folder is there, and every folder is a template's or the
unit's) and `OrderInv` (units that share a template come together when releases
are early) give `DeliveriesOnDiskAlways`.  `TargetsInv` (the targets are what a
full search leaves over, whichever job made them), `EpochInv` (the epoch of a job
follows its verifiers) and `CauseInv` give `RaisesForCauseAlways`: a group
raises only if fewer sources replay than there are probes.

`VerifierAssignmentsProofs`.  `ServiceInv` describes a job in each of its phases:
its bundles differ where the policy says so, a report is what its behaviour
makes of the bundle, a row is settled from the reports.  From it
`BundlesDifferAlways` and `SettlementJustAlways`, for any number of verifiers and
segments: nobody is blamed or paid for what the device did.  `BankInv` follows
the cache of replays: what is known of a segment is the replay it names, what is
complete is characterised, a frozen row answers as the live bank
(`BankFaithfulAlways`).  `AuditInv` says that a transcript has its commitment
before its nonce and was opened at most once.  `AuditBindsAlways` also
states that exactly as many samples find a bad report as the published
hypergeometric bound counts; that rests on `ChooseCounts`: a set has
choose(n, k) subsets of k, and the recursion that defines the factorial has a
solution.

`ReserveProofs`, the escrow.  `EscrowInv` has the terms (`TermsOK`), the types of the
ledger and what its checks demand of it (`StateOK`, `Validated`), the waves so far
and the one being issued or settled (`WavesSoFar`, `WaveReady`,
`WaveOutstanding`), the amounts (`LedgerExplained`: every amount is a sum over the
assignments of each state; `Commitment`: what the policy has committed is what was locked so far,
plus the wave being issued; `Capped`: a budget-aware policy is within the cap once it has
issued a reserve), and `RaisesForCause`.  It gives `EscrowAccountedAlways` and
`WithinHardCapAlways`, for all stakes, caps, settlements and numbers of waves.

`ReserveProofs`, the planners that look ahead.  What the solver's recursion over
sizes fills exists and solves every position from those with one identity less
(`LayersExist`, `SolvedCache`, `SolverSolves`); values count jobs (`AllValued`), a
position is worth the worst of its best option (`Leads`, `ValueIsBest`: the sort key,
one number in a mixed radix, puts a better worst case first).  `PlayInv` adds to
`PromiseHeld` the types, that a planner's assignments leave attempts for whoever is
unused (`AttemptsPaid`; otherwise the cap could stop a planner early), and that
whoever plays by a certificate was certified (`CertifiedFirst`).  A turn keeps it:
the planner assigns one option that keeps the value (`PlannerSelects`), the
identity passes or fails, and each case is one of the two positions the worst is
taken over (`ValueKept`).  It gives `PromisesAlways` and `CertificatesAlways`.
`AuditAlways` and `CoversAlways` are about every position of the cache, by induction over the
identities that remain: the hypotheses that spare or blame whoever is assigned are
those of the position after a pass or a failure (`HypothesesSplit`), and a cover survives
both, with a spare in the place of a primary that failed (`CoverAfterPass`,
`CoverAfterFailure`).

`ReserveProofs`, matchings and what is possible.  A search of `_augment` sees an
identity at most once, so the recursion exists and is known by induction over who
is unseen (`AugmentExists`, `AugmentSound`): if it finds somebody for a job, one identity more
is owned and whoever was seen keeps its owner; if not, nothing has changed, and all
that the job and the owners of those seen want has been seen.  So after every slot
there is a set of jobs that own whomever they want, while the others have all their
slots (`Tight`, `MatchingTight`), and a matching of that size is maximum
(`TightIsMaximum`); `MatchingsAlways` says so of every wave.  By Hall's condition
`offline_maximum` then counts any set of jobs that disjoint identities can serve
(`SlotsProvided`, `OfflineReaches`).  Two such sets are at hand.  `OfflineInv` keeps, beside the types,
for each job as many identities as passes, spent, compatible and not failed
(`ServedBy`), and that the root's value is that of the first position (`RootIs`);
every selection extends it (`SelectionIs`, `ServedMore`).  And the value of a position is reached
whoever fails of those that remain, by induction over them (`ServingWorth`).  It
gives `OfflineAlways`, and with the others `ExactAlways`, all of `ExactSound`.

`EvaluationProofs`, the direct comparison.  `DirectInv` says that the k-th row is
the decision of the k-th method in turn on its trace (`RowAt`), that the variants of
a trace are full SEVC's decisions under each budget (`VariantsAt`), and that the gate
is open until both are complete and then says what the rows say.  `DirectIsSound`
follows: what a method decides depends on who responds only through whether it
decides at all, a reserve recovers the least of what is missing, what it may and
what there is (`VariantIs`, with `RespondersAdd` for the responders of a stretch of the roster), and the
gate's counts are over sets of rows that `RowAt` identifies with the traces of a state.

`EvaluationProofs`, the replay tasks. Every permutation of hidden channels is
undone by its inverse (`InverseIsPlan`, `Restored`), and `Step` treats the
channels alike (`GradientMoves`, `StepMoves`), so training behind a plan is the
training seen through it (`RunsMove`, step by step). Hence a replay accepts a
wrapped proof exactly when it accepts the proof, whether it restores the states
at once or as it needs them; and the hashes computed while a proof is
transformed are those of the transformed proof. A source within tolerance of its
training is publicly consistent and a coherent mutation or a continuation keeps
that; a mutation of which three tolerances survive is refused, because the
checkpoint before it is still the one that was trained. `ProbesInv` puts this
together: what `valid` says of the source (`SourceKept`), what the bundle's
candidate is (`BundleKept`), whose descriptor the verifier has
(`DescriptorKept`), and that a delivered challenge does not replay
(`Established`). `ProbesAreSound` follows for any origins, lengths of training
from four steps on, flaws, coordinates, tolerance and rounding grid.
`ProbeAssumption` asks for permutations that are permutations, tensors of the
shapes of the network, the proportion of magnitude and tolerance above, and
setups of registered kinds; the network is the one of the model, with its two
hidden layers.

`SetSums`.  The library defines sums by recursion over the subsets of a set and
choose by factorials.  Its induction theorems take an operator, which the
provers cannot instantiate; the induction is done here as the least
counterexample of a set of naturals or of subsets (`AllNaturals`, `AllSubsets`,
from the well-foundedness of the naturals).  So are the facts that a sum does not
depend on the order, grows by one element at a time, is additive and bounded;
that a product defined by recursion exists; Pascal's rule and what it does to a
binomial law.

Only model-checked:

- liveness (`Returns` twice, `RunEnds`, `Ends` twice): the prover does not do it;
- of `CertificateSound`, what is not about `ExactRecovery` (`ExactAlways`): the
  certificates, published records, formations and aggregates, where a search or a
  fold over lists is compared with its reference definition;
- `SimulationAccounted`, `StudiesJudged`: most of their parts compare a
  computation with its reference definition over all inputs of an instance
  (folds over sequences, quantiles, events in order), by induction over each of
  these computations.

## 5. Plan

What is left, in this order.

1. Theorems on the evaluations: that capacity is shared and every deferral of
   `SlotRecovery` explained, that `LinkTransfer` accounts for every byte, that the
   binomial gates of `StudyGates` err as rarely as they claim (with the lemmas on tails of
   `ServiceStudyProofs`).
2. The executable controllers as policies of `ExecutedRecovery`, so that the
   selections of `ExactRecovery` and the assertions of `ReserveCover` are met
   under deadlines too.
3. The run-wide and per-job epochs of `ServiceStudy`.
4. The identity checks of `AuthenticatedTensorFile`.

Not modelled, and why.

- Training, models, data, attacks, learned recognizers: numeric programs on
  tensors; their results enter as the values they can have.
- Contract menus, peer-prediction scores and the reputation estimator: closed
  formulas over reals and linear programs.
- The selectors a library fits (regressions, trees, boosting): threshold and hash
  selectors stand for them in `StudyGates`.
- Hashing, JSON, clocks, devices, environment checks, sealing of artifacts: I/O
  with no protocol state, or none that a property can tell apart.
- `_measure_block` and `_uninstrumented_block` of
  `experiments/tdsc_system_overhead.py`: they start from `_materialize_source`,
  which names `source_seed` (line 102) without defining it and so raises whenever
  it is called.
- `shared_wall_charges` and CUDA streams: wall time.
- Offline audits, apart from the auditor in `ExactRecovery` and the gates: they
  are read for what they require.
