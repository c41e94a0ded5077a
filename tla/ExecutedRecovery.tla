--------------------------- MODULE ExecutedRecovery ---------------------------
(***************************************************************************)
(* execute_recovery of executed_recovery.py: the owner activates the       *)
(* primary committees, collects what the assigned identities settle to,    *)
(* decides the jobs whose PASS reports suffice, and activates reserves     *)
(* wave by wave until every job is decided or it has to defer.             *)
(*                                                                         *)
(* Activation reserves capacity and expenditure pair by pair; with one     *)
(* lane each reserved pair runs before the next is reserved, with more     *)
(* the whole wave is reserved first and runs on TaskLanes.                 *)
(*                                                                         *)
(* The controllers modelled are the ones that activate the primary         *)
(* committees first: no-recovery, fixed-order-same-reserve and the         *)
(* joint-matching ones, which differ in minimum_pass_count and in whether  *)
(* a failed capacity certificate defers every job at once (preDefer).      *)
(* The clock is kept relative to the deadline.  build_execution_roster     *)
(* registers one correctness for all identities, so a committee's success  *)
(* probability depends on its size only.                                   *)
(***************************************************************************)
EXTENDS Integers, FiniteSets, SequencesExt

CONSTANTS
  Verifiers,   (* indices of the roster's identities                       *)
  Jobs,        (* indices of the jobs                                      *)
  Correctness, (* the roster's correctness, in tenths                      *)
  Success,     (* what MajoritySuccess and RequiredPasses, below, make of  *)
  Quorum,      (* it: execute_recovery computes them once                  *)
  Setups,      (* the calls of execute_recovery a behaviour may start from *)
  Segments,    (* the required segments of a job                           *)
  Reports      (* what a report can say of them                            *)

ASSUME VerifiersAssumption == Verifiers \subseteq Nat /\ IsFiniteSet(Verifiers)
ASSUME JobsAssumption == Jobs \subseteq Nat /\ IsFiniteSet(Jobs) /\ Jobs # {}
ASSUME CorrectnessAssumption == Correctness \in 0..10

-------------------------------------------------------------------------------
(* Majorities                                                              *)

MaxCommittee == 9    (* registered identities                              *)
JobTarget == 950000000    (* JOB_RELIABILITY_TARGET, in units of 10^-9     *)

(* distribution[n][k]: k of n members are correct, in units of 10^-n.      *)
distribution[n \in 0..MaxCommittee] ==
  [k \in 0..MaxCommittee |->
     IF n = 0 THEN (IF k = 0 THEN 1 ELSE 0)
     ELSE distribution[n - 1][k] * (10 - Correctness)
          + (IF k = 0 THEN 0 ELSE distribution[n - 1][k - 1] * Correctness)]

(* In units of 10^-9.                                                      *)
MajoritySuccess ==
  [n \in 0..MaxCommittee |->
     10^(MaxCommittee - n)
       * FoldLeft(+, 0, [k \in 1..n |-> IF k > n \div 2 THEN distribution[n][k] ELSE 0])]

OddSizes(n) == {size \in 1..n : size % 2 = 1}
Sufficient == {size \in OddSizes(MaxCommittee) : MajoritySuccess[size] >= JobTarget}
RequiredPasses == Min(Sufficient)

ASSUME SuccessAssumption ==
  /\ Success = MajoritySuccess /\ Success \in [0..MaxCommittee -> Nat]
  /\ Cardinality(Verifiers) <= MaxCommittee
ASSUME QuorumAssumption == Quorum \in Nat \ {0} /\ Sufficient # {} /\ Quorum = RequiredPasses

-------------------------------------------------------------------------------
(* The committee a job's surviving PASS reports form                       *)

FirstOf(n, S) == {v \in S : Cardinality({u \in S : u < v}) < n}

Reconstituted(survivors) == Cardinality(survivors) >= Quorum
Committee(survivors) == FirstOf(Quorum, survivors)

-------------------------------------------------------------------------------
(* The next wave                                                           *)

LexLess(a, b) ==
  \E k \in DOMAIN a \cap DOMAIN b : a[k] < b[k] /\ \A m \in 1..(k - 1) : a[m] = b[m]

(* What a committee of n members is worth to the matching.                 *)
ReliabilityOfAll(n, minimumPassCount) == Success[n]
Reliability(n, minimumPassCount) ==
  IF minimumPassCount = 0 THEN Success[n]
  ELSE Max({Success[size] : size \in OddSizes(n)} \cup {0})

(* options[j]: the identities job j could be given; members[j]: how many   *)
(* PASS reports it has.  A wave gives a job at most one identity.          *)
Matchings(options) ==
  {wave \in UNION {[served -> Verifiers] : served \in SUBSET DOMAIN options} :
     /\ \A j \in DOMAIN wave : wave[j] \in options[j]
     /\ \A j, h \in DOMAIN wave : j # h => wave[j] # wave[h]}

(* The objective of _global_matching_objective, term by term: most jobs    *)
(* that reach the target, smallest largest gap, fewest missing reports,    *)
(* fewest assignments.  Every identity has the same fee and capacity one,  *)
(* so the cost is the number of assignments and no capacity is left on an  *)
(* assigned identity.                                                      *)
MatchingKey(wave, open, members, minimumPassCount) ==
  LET size(j) == members[j] + (IF j \in DOMAIN wave THEN 1 ELSE 0)
      worth(j) == Reliability(size(j), minimumPassCount)
      unreached == {j \in open : size(j) < minimumPassCount \/ worth(j) < JobTarget}
      missing == [j \in open |-> Max({0, minimumPassCount - size(j)})]
  IN  <<Cardinality(unreached),
        Max({JobTarget - worth(j) : j \in open} \cup {0}),
        MapThenSumSet(LAMBDA j : missing[j], open),
        Cardinality(DOMAIN wave)>>

(* The last term: of two waves with as many pairs, the one whose sorted    *)
(* pairs come first serves the first job they treat differently, with an   *)
(* earlier identity if both do.                                            *)
Alike(wave, other, j) ==
  /\ j \in DOMAIN wave <=> j \in DOMAIN other
  /\ j \in DOMAIN wave => wave[j] = other[j]
Earlier(wave, other) ==
  \E j \in DOMAIN wave :
    /\ j \in DOMAIN other => wave[j] < other[j]
    /\ \A h \in (DOMAIN wave \cup DOMAIN other) : h < j => Alike(wave, other, h)

(* a, b: a wave and its key.                                               *)
Preferred(a, b) ==
  LexLess(a[2], b[2]) \/ (a[2] = b[2] /\ ~Earlier(b[1], a[1]))

(* The waves to which no other is preferred: there is one.                 *)
BestMatchings(open, options, members, minimumPassCount) ==
  LET keyed == {<<wave, MatchingKey(wave, open, members, minimumPassCount)>> :
                  wave \in Matchings(options)}
  IN  {best[1] : best \in {a \in keyed : \A b \in keyed : Preferred(a, b)}}

(* select_global_recovery_matching: the jobs whose PASS reports do not yet *)
(* suffice compete for the free identities they are compatible with.       *)
JointMatchings(jobs, free, members, minimumPassCount) ==
  LET open == {j \in jobs : members[j] < minimumPassCount
                            \/ Success[members[j]] < JobTarget}
  IN  BestMatchings(open, [j \in open |-> free[j]], members, minimumPassCount)

(* fixed-order-same-reserve: each job in turn takes the first free         *)
(* identity no earlier job took.                                           *)
FixedOrder(jobs, free) ==
  {wave \in Matchings([j \in jobs |-> free[j]]) :
     \A j \in jobs :
       LET choices == free[j] \ {wave[h] : h \in {g \in DOMAIN wave : g < j}}
       IN  IF choices = {} THEN j \notin DOMAIN wave
           ELSE j \in DOMAIN wave /\ wave[j] = Min(choices)}

-------------------------------------------------------------------------------
(* A recovery and its rosters                                              *)

Policies == {"no-recovery", "fixed-order", "joint-matching"}
Verdicts == {"true", "false", "none"}
Before == -1    At == 0    Past == 1

ASSUME ReportsAssumption ==
  Reports \subseteq [Segments -> Verdicts] /\ Reports # {} /\ Segments # {}
ASSUME SetupsAssumption ==
  Setups \subseteq [policy: Policies, minimumPassCount: {0, 3},
                    lanes: Nat \ {0}, preDefer: BOOLEAN,
                    primary: [Jobs -> Seq(Verifiers)], conflicts: SUBSET (Verifiers \X Jobs),
                    missing: SUBSET Verifiers,
                    prepaid: Nat, reserve: Nat, cap: Nat]

(* The primary committees are disjoint and the cap covers the work already *)
(* done: what build_execution_roster builds and execute_recovery checks.   *)
ASSUME RosterAssumption ==
  \A s \in Setups :
    /\ s.prepaid <= s.cap
    /\ \A j, h \in Jobs : \A k \in DOMAIN s.primary[j] : \A m \in DOMAIN s.primary[h] :
         <<j, k>> # <<h, m>> => s.primary[j][k] # s.primary[h][m]

VARIABLES
  setup,      (* the call's arguments; no step changes it                  *)
  clock,      (* now() relative to the deadline                            *)
  phase,      (* where execute_recovery is                                 *)
  queue,      (* pairs activate_many has still to consider, a set          *)
  ready,      (* pairs it reserved and has not collected                   *)
  results,    (* what the members of `ready' ended with so far             *)
  activation, (* activation[j]: identities activated for job j             *)
  spent,      (* reserved expenditure of each job                          *)
  status,     (* collected status of each identity                         *)
  report,     (* collected report of each identity that has one            *)
  review,     (* jobs the current pass of the loop has still to look at    *)
  decisions   (* decisions[j]: route and committee                         *)

vars == <<setup, clock, phase, queue, ready, results, activation, spent, status, report,
          review, decisions>>

Statuses == {"PASS", "FAIL_CONFIRMED", "DROPOUT"}
Unsettled == "unsettled"
NoReport == [s \in Segments |-> "absent"]
Outcome == [status: Statuses, report: Reports \cup {NoReport}]
Running == [status |-> Unsettled, report |-> NoReport]
Routes == {"open", "accept", "reject", "safe-defer"}
Decision == [route: Routes, committee: SUBSET Verifiers]
Undecided == [route |-> "open", committee |-> {}]
Deferred == [route |-> "safe-defer", committee |-> {}]

Phases == {"wave", "review", "done", "raised", "duplicate capacity"}
StoppedPhases == {"done", "raised", "duplicate capacity"}

StateOK ==
  /\ setup \in Setups
  /\ clock \in {Before, At, Past}
  /\ phase \in Phases
  /\ ready \in Seq(Jobs \X Verifiers)
  /\ results \in Seq(Outcome \cup {Running}) /\ Len(results) = Len(ready)
  /\ activation \in [Jobs -> SUBSET Verifiers]
  /\ spent \in [Jobs -> Nat]
  /\ status \in [Verifiers -> Statuses \cup {Unsettled}]
  /\ report \in [Verifiers -> Reports \cup {NoReport}]
  /\ review \in SUBSET Jobs
  /\ decisions \in [Jobs -> Decision]

TypeOK == StateOK /\ queue \subseteq Jobs \X Verifiers

Used == UNION {activation[j] : j \in Jobs}
Decided == {j \in Jobs : decisions[j].route # "open"}
SurvivorsOfAnyStatus(j) == {v \in activation[j] : report[v] # NoReport}
Survivors(j) == {v \in activation[j] : report[v] # NoReport /\ status[v] = "PASS"}
Compatible(j) == {v \in Verifiers : <<v, j>> \notin setup.conflicts}
Quarantined == {v \in Verifiers : status[v] \in {"FAIL_CONFIRMED", "DROPOUT"}}

PrimaryPairs == UNION {{<<j, setup.primary[j][k]>> : k \in DOMAIN setup.primary[j]} : j \in Jobs}

Init ==
  /\ setup \in Setups
  /\ clock \in {Before, At, Past}
  /\ phase = IF setup.preDefer THEN "done" ELSE "wave"
  /\ queue = IF setup.preDefer THEN {} ELSE PrimaryPairs
  /\ ready = <<>> /\ results = <<>>
  /\ activation = [j \in Jobs |-> {}]
  /\ spent = [j \in Jobs |-> setup.prepaid]
  /\ status = [v \in Verifiers |-> Unsettled]
  /\ report = [v \in Verifiers |-> NoReport]
  /\ review = {}
  /\ decisions = [j \in Jobs |-> IF setup.preDefer THEN Deferred ELSE Undecided]

-------------------------------------------------------------------------------
(* Time passes between any two steps.                                      *)
Tick ==
  /\ phase \notin StoppedPhases
  /\ \E later \in {At, Past} : later > clock /\ clock' = later
  /\ UNCHANGED <<setup, phase, queue, ready, results, activation, spent, status, report,
                 review, decisions>>

-------------------------------------------------------------------------------
(* activate_many, the first pair of the wave: it takes them job by job, a  *)
(* job's primary members in their order                                    *)

Place(j, v) == CHOOSE k \in DOMAIN setup.primary[j] : setup.primary[j][k] = v
Precedes(pair, other) ==
  \/ pair[1] < other[1]
  \/ pair[1] = other[1] /\ Place(pair[1], pair[2]) < Place(other[1], other[2])

(* A reserved pair runs at once with one lane, else when the wave is       *)
(* reserved.                                                               *)
Executing == phase = "wave" /\ ready # <<>> /\ (setup.lanes = 1 \/ queue = {})
Considering(j, v) ==
  /\ phase = "wave" /\ ~Executing
  /\ <<j, v>> \in queue /\ \A other \in queue \ {<<j, v>>} : Precedes(<<j, v>>, other)

OverBudgetOnceSpent(j) == spent[j] > setup.cap
OverBudget(j) == spent[j] + setup.reserve > setup.cap

Skip ==
  /\ \E j \in Jobs, v \in Verifiers :
       /\ Considering(j, v)
       /\ v \notin Compatible(j) \/ (v \notin Used /\ (OverBudget(j) \/ clock >= At))
       /\ queue' = queue \ {<<j, v>>}
  /\ UNCHANGED <<setup, clock, phase, ready, results, activation, spent, status, report,
                 review, decisions>>

ReserveUnrecorded ==
  \E j \in Jobs, v \in Verifiers :
    /\ Considering(j, v) /\ v \in Compatible(j) /\ v \notin Used /\ ~OverBudget(j) /\ clock < At
    /\ activation' = [activation EXCEPT ![j] = @ \cup {v}]
    /\ spent' = [spent EXCEPT ![j] = @ + setup.reserve]
    /\ ready' = Append(ready, <<j, v>>)
    /\ queue' = queue \ {<<j, v>>}
    /\ UNCHANGED <<setup, clock, phase, results, status, report, review, decisions>>
Reserve ==
  \E j \in Jobs, v \in Verifiers :
    /\ Considering(j, v) /\ v \in Compatible(j)
    /\ IF v \in Used
       THEN /\ phase' = "duplicate capacity"
            /\ UNCHANGED <<queue, ready, results, activation, spent>>
       ELSE /\ ~OverBudget(j) /\ clock < At
            /\ activation' = [activation EXCEPT ![j] = @ \cup {v}]
            /\ spent' = [spent EXCEPT ![j] = @ + setup.reserve]
            /\ ready' = Append(ready, <<j, v>>)
            /\ results' = Append(results, Running)
            /\ queue' = queue \ {<<j, v>>}
            /\ phase' = phase
    /\ UNCHANGED <<setup, clock, status, report, review, decisions>>

WaveEnds ==
  /\ phase = "wave" /\ queue = {} /\ ready = <<>>
  /\ phase' = "review" /\ review' = Jobs
  /\ UNCHANGED <<setup, clock, queue, ready, results, activation, spent, status, report,
                 decisions>>

-------------------------------------------------------------------------------
(* TaskLanes.map: at most `lanes' members are submitted beyond the results *)
(* it has taken, and it takes them in order.                               *)

Finished == {k \in DOMAIN results : results[k] # Running}
Taken == CHOOSE n \in 0..Len(results) :
           1..n \subseteq Finished /\ (n < Len(results) => n + 1 \notin Finished)
Submitted == {k \in DOMAIN ready : k <= Taken + setup.lanes}

(* execute_member: a missing identity times out, any other one returns the *)
(* report and settlement of the callback.  What a report says that has not *)
(* passed is never read: one report stands for all of those.               *)
MemberOutcomes(v) ==
  LET dropout == [status |-> "DROPOUT", report |-> NoReport]
      failed == [status |-> "FAIL_CONFIRMED", report |-> CHOOSE r \in Reports : TRUE]
  IN  IF v \in setup.missing THEN {dropout}
      ELSE [status: {"PASS"}, report: Reports] \cup {failed, dropout}

Finish ==
  /\ Executing
  /\ \E k \in Submitted \ Finished : \E outcome \in MemberOutcomes(ready[k][2]) :
       results' = [results EXCEPT ![k] = outcome]
  /\ UNCHANGED <<setup, clock, phase, queue, ready, activation, spent, status, report,
                 review, decisions>>

(* The callback raised or broke the reserved transfer terms: the wave's    *)
(* results are lost with the call.                                         *)
MemberRaises ==
  /\ Executing
  /\ \E k \in Submitted \ Finished : ready[k][2] \notin setup.missing
  /\ phase' = "raised"
  /\ UNCHANGED <<setup, clock, queue, ready, results, activation, spent, status, report,
                 review, decisions>>

ResultOf(v) == {k \in DOMAIN ready : ready[k][2] = v}

Collect ==
  /\ Executing /\ Finished = DOMAIN ready
  /\ status' = [v \in Verifiers |->
       IF ResultOf(v) = {} THEN status[v] ELSE results[CHOOSE k \in ResultOf(v) : TRUE].status]
  /\ report' = [v \in Verifiers |->
       IF ResultOf(v) = {} THEN report[v] ELSE results[CHOOSE k \in ResultOf(v) : TRUE].report]
  /\ ready' = <<>> /\ results' = <<>>
  /\ UNCHANGED <<setup, clock, phase, queue, activation, spent, review, decisions>>

-------------------------------------------------------------------------------
(* One pass of the main loop: every undecided job is looked at             *)

Votes(members, segment) == {v \in members : report[v][segment] # "none"}
For(members, segment) == {v \in members : report[v][segment] = "true"}

(* required_segment_decision with as many required votes as members.       *)
ConclusiveByMajority(members) ==
  \A s \in Segments : 2 * Cardinality(Votes(members, s)) > Cardinality(members)
Conclusive(members) == \A s \in Segments : Votes(members, s) = members
Accepts(members) == \A s \in Segments : 2 * Cardinality(For(members, s)) > Cardinality(members)

Decidable(j) ==
  /\ Reconstituted(Survivors(j))
  /\ Conclusive(Committee(Survivors(j)))
  /\ clock <= At

Review ==
  /\ phase = "review" /\ review # {}
  /\ \E j \in review :
       /\ \A h \in review : j <= h
       /\ review' = review \ {j}
       /\ decisions' =
            IF j \notin Decided /\ Decidable(j)
            THEN [decisions EXCEPT ![j] =
                   [route |-> IF Accepts(Committee(Survivors(j))) THEN "accept" ELSE "reject",
                    committee |-> Committee(Survivors(j))]]
            ELSE decisions
  /\ UNCHANGED <<setup, clock, phase, queue, ready, results, activation, spent, status, report>>

Free(j) == (Compatible(j) \ Used) \ Quarantined

(* The wave the controller selects, the only element of the set.           *)
Selections ==
  LET open == Jobs \ Decided
      free == [j \in Jobs |-> Free(j)]
      members == [j \in Jobs |-> Cardinality(Survivors(j))]
  IN  IF setup.policy = "no-recovery" THEN Matchings(<<>>)
      ELSE IF setup.policy = "fixed-order"
      THEN FixedOrder(open, [j \in Jobs |-> Compatible(j) \ Used])
      ELSE JointMatchings(open, free, members, setup.minimumPassCount)

WithinBudgetUnfiltered(wave) == {<<j, wave[j]>> : j \in DOMAIN wave}
WithinBudget(wave) == {<<j, wave[j]>> : j \in {h \in DOMAIN wave : ~OverBudget(h)}}

WaitingForSelection == phase = "review" /\ review = {} /\ Decided # Jobs /\ clock < At

Defer == decisions' = [j \in Jobs |-> IF j \in Decided THEN decisions[j] ELSE Deferred]

(* The loop activates the selected pairs the budget allows, and breaks if  *)
(* there are none.                                                         *)
NextWave ==
  /\ WaitingForSelection
  /\ \E wave \in Selections :
       /\ queue' = WithinBudget(wave)
       /\ IF WithinBudget(wave) = {}
          THEN phase' = "done" /\ Defer
          ELSE phase' = "wave" /\ UNCHANGED decisions
  /\ UNCHANGED <<setup, clock, ready, results, activation, spent, status, report, review>>

Return ==
  /\ phase = "review" /\ review = {}
  /\ Decided = Jobs \/ clock >= At
  /\ phase' = "done" /\ Defer
  /\ UNCHANGED <<setup, clock, queue, ready, results, activation, spent, status, report, review>>

Stopped ==
  /\ phase \in StoppedPhases
  /\ UNCHANGED vars

Step ==
  \/ Skip \/ Reserve \/ WaveEnds
  \/ Finish \/ Collect
  \/ Review \/ NextWave \/ Return

Next == Step \/ Tick \/ MemberRaises \/ Stopped

Spec == Init /\ [][Next]_vars

(* execute_recovery runs on, and every member it waits for returns: a      *)
(* missing one when its timeout ends, the callback because it is a call.   *)
FairSpec == Spec /\ WF_vars(Step)

-------------------------------------------------------------------------------
(* Properties                                                              *)

(* Expenditure is reserved before a member runs, once and for one job: no  *)
(* identity serves two jobs, and what a job has reserved and the work paid *)
(* before stay within the budget cap.                                      *)
ReservedWithinCap ==
  \A j \in Jobs :
    /\ \A h \in Jobs \ {j} : activation[j] \cap activation[h] = {}
    /\ spent[j] = setup.prepaid + setup.reserve * Cardinality(activation[j])
    /\ spent[j] <= setup.cap

(* The guard of activate_many never raises: no controller selects an       *)
(* identity twice in a wave, nor one an earlier wave has activated.        *)
NoDuplicateActivation == phase # "duplicate capacity"

(* When the call returns, every activated identity has settled and nobody  *)
(* else has: callbacks and timeouts account for the whole usage.           *)
UsageSettled ==
  phase = "done" => \A v \in Verifiers : v \in Used <=> status[v] # Unsettled

(* However the lanes finish, a result is collected for the member it       *)
(* belongs to: a missing identity never has a PASS, a report or a vote.    *)
ResultsKeepTheirMember ==
  \A v \in setup.missing :
    /\ status[v] \in {Unsettled, "DROPOUT"} /\ report[v] = NoReport
    /\ \A j \in Jobs : v \notin decisions[j].committee

Saying(j, s, verdict) == Cardinality({v \in decisions[j].committee : report[v][s] = verdict})

Backed(j) ==
  /\ decisions[j].committee \subseteq {v \in activation[j] : status[v] = "PASS"}
  /\ Cardinality(decisions[j].committee) = Quorum
  /\ IF decisions[j].route = "accept"
     THEN \A s \in Segments : 2 * Saying(j, s, "true") > Quorum
     ELSE \E s \in Segments : 2 * Saying(j, s, "false") >= Quorum

(* A decision has a full quorum behind it: PASS reports of identities      *)
(* activated for that job, every member speaking on every required         *)
(* segment, accepting only with a majority on each segment and rejecting   *)
(* only with half of the committee against one.                            *)
QuorumBehindDecision ==
  \A j \in Jobs : decisions[j].route \in {"accept", "reject"} => Backed(j)

(* A job is deferred for a cause: the certificate, the deadline, a budget  *)
(* that is used up, no identity left it could be given, or a quorum whose  *)
(* reports do not speak on every segment.  (A matching told to reach fewer *)
(* reports than the quorum is left out: it refuses one that does not raise *)
(* the majority bound by itself, see the README.)                          *)
DeferredForCause ==
  phase = "done" /\ (setup.policy = "joint-matching" => setup.minimumPassCount >= Quorum) =>
    \A j \in Jobs :
      decisions[j].route = "safe-defer" =>
        \/ setup.preDefer \/ setup.policy = "no-recovery" \/ clock >= At
        \/ \E h \in Jobs : OverBudget(h)
        \/ Free(j) = {}
        \/ Cardinality(Survivors(j)) >= Quorum /\ ~Conclusive(Committee(Survivors(j)))

(* execute_recovery stops short of a decision for a cause, and never by    *)
(* its own guard against activating an identity twice.                     *)
StopsForCause == NoDuplicateActivation /\ DeferredForCause

(* execute_recovery returns, whatever fails and however tight the budget.  *)
Returns == <>(phase \in StoppedPhases)

(* execute_recovery keeps the contract of RecoveryContract, in every wave  *)
(* of every controller.                                                    *)
Terms == [prepaid |-> setup.prepaid, reserve |-> setup.reserve, cap |-> setup.cap,
          conflicts |-> setup.conflicts]

C == INSTANCE RecoveryContract
       WITH terms <- Terms, hired <- activation, outcome <- status, decision <- decisions,
            open <- phase \notin StoppedPhases

Contract == C!Spec

(* What the audit of recovery_enumeration.py asserts of a trace: with a    *)
(* decided job in it, it ended by the deadline.                            *)
DecidedTraceInTime ==
  phase = "done" /\ (\E j \in Jobs : decisions[j].route # "safe-defer") => clock <= At
===============================================================================
