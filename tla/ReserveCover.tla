----------------------------- MODULE ReserveCover -----------------------------
(***************************************************************************)
(* The value-preserving-rc policy of recovery_game.py run by simulate.     *)
(* A round grows a set of guaranteed jobs, gives each of them all the      *)
(* identities it still needs (its primaries) and keeps, for each, as many  *)
(* unassigned compatible identities as failures may still come; then it    *)
(* serves further jobs as long as that reserve survives.                   *)
(*                                                                         *)
(* Every plan is built by the greedy loop of _construct, one step of this  *)
(* module per identity it picks, so that what the loop maintains can be    *)
(* stated (and proved) where the code relies on it.                        *)
(***************************************************************************)
EXTENDS RecoveryGame

CONSTANTS
  MaxRounds,      (* simulate's max_rounds                                 *)
  ExcessFailures  (* failures the adversary may cause beyond the allowance *)

ASSUME BoundsAssumption == MaxRounds \in Nat /\ ExcessFailures \in Nat

VARIABLES
  base,      (* memory['guaranteed_jobs'], {} before the first round       *)
  promised,  (* memory['guaranteed_count'], NoCount before the first round *)
  root,      (* the count of memory['root_certificate'], or NoCount        *)
  phase,     (* where rc_round is                                          *)
  step,      (* where _construct is                                        *)
  guaranteed,(* the jobs certify guarantees so far                         *)
  extra,     (* the further jobs rc_round serves so far                    *)
  todo,      (* the candidates still to be tried in this stage             *)
  cand,      (* the candidate being tried: at most one job                 *)
  plan,      (* the last plan _construct returned                          *)
  pending, avail, trial   (* the locals of the running _construct          *)

memory == <<base, promised, root>>
construction == <<pending, avail, trial>>
coverVars == <<game, publicState, memory, phase, step, guaranteed, extra, todo, cand,
               plan, construction>>

NoCount == -1

Building == {"base", "grow", "extra"}
AssertionErrors == {"lost witness", "lowered count", "broken reserve"}
Phases == {"idle", "play", "done"} \cup Building \cup AssertionErrors
Steps == {"check", "pick", "next"}

TypeOK ==
  /\ PublicTypeOK
  /\ base \in SUBSET Jobs
  /\ promised \in Nat \cup {NoCount}
  /\ root \in Nat \cup {NoCount}
  /\ phase \in Phases
  /\ step \in Steps
  /\ guaranteed \in SUBSET Jobs
  /\ extra \in SUBSET Jobs
  /\ todo \in SUBSET Jobs
  /\ cand \in SUBSET Jobs
  /\ plan \in Plans
  /\ pending \in [Jobs -> Nat]
  /\ avail \in SUBSET Identities
  /\ trial \in Plans

CoverInit ==
  /\ PublicInit
  /\ base = {} /\ promised = NoCount /\ root = NoCount
  /\ phase = "idle" /\ step = "next"
  /\ guaranteed = {} /\ extra = {} /\ todo = {} /\ cand = {}
  /\ plan = NoPlan
  /\ pending = [j \in Jobs |-> 0] /\ avail = {} /\ trial = NoPlan

-------------------------------------------------------------------------------
(* Lexicographic order on the sort keys, tuples of integers of one length. *)
Precedes(a, b) ==
  \E k \in DOMAIN a : a[k] < b[k] /\ \A m \in 1..(k - 1) : a[m] = b[m]

(* The code keeps slack in a dictionary it decrements; between two picks   *)
(* the value is the one defined here.                                      *)
TrialJobs == guaranteed \cup extra \cup cand
TrialReserve == IF phase = "extra" THEN guaranteed ELSE TrialJobs
Waiting == Unresolved \ TrialJobs

Slack(j) ==
  Coverage(avail, j) - pending[j] - (IF j \in TrialReserve THEN Remaining ELSE 0)

Open == {j \in TrialJobs : pending[j] > 0}

(* min((h for h in jobs if pending[h]), key=lambda h: (slack[h], h))       *)
Tightest ==
  {j \in Open : \A h \in Open : ~Precedes(<<Slack(h), h>>, <<Slack(j), j>>)}

(* The other served jobs that lose a compatible identity when i is picked. *)
Affected(i, j) == (TrialJobs \cap game.compat[i]) \ {j}

EligibleAtZeroSlack(j) ==
  {i \in avail \cap Compatible(j) : \A h \in Affected(i, j) : Slack(h) >= 0}
EligibleFor(j) ==
  {i \in avail \cap Compatible(j) : \A h \in Affected(i, j) : Slack(h) > 0}

(* 1 << 30, the slack of "no other job affected".                          *)
NoneAffected == 1073741824

Low(i, j) ==
  IF Affected(i, j) = {} THEN NoneAffected
  ELSE CHOOSE s \in {Slack(h) : h \in Affected(i, j)} :
         \A h \in Affected(i, j) : s <= Slack(h)

PickKey(i, j) ==
  <<Cardinality(Waiting \cap game.compat[i]), -Low(i, j),
    Cardinality(Affected(i, j)), Cardinality(game.compat[i]), i>>

Best(j) ==
  {i \in EligibleFor(j) : \A k \in EligibleFor(j) : ~Precedes(PickKey(k, j), PickKey(i, j))}

(* The order certify and rc_round try further jobs in.                     *)
CandidateKey(j) == <<Deficit(j), -Coverage(unused, j), j>>
Foremost(S) == {j \in S : \A h \in S : ~Precedes(CandidateKey(h), CandidateKey(j))}

(* Entering _construct with the deficits of the jobs J.                    *)
StartConstruct(J) ==
  /\ step' = "check"
  /\ pending' = [j \in Jobs |-> IF j \in J THEN Deficit(j) ELSE 0]
  /\ avail' = unused
  /\ trial' = NoPlan

-------------------------------------------------------------------------------
StartRoundWithoutMemory ==
  /\ phase = "idle" /\ rounds < MaxRounds /\ Unresolved # {}
  /\ phase' = "base"
  /\ guaranteed' = {} /\ extra' = {} /\ todo' = {} /\ cand' = {}
  /\ plan' = NoPlan
  /\ StartConstruct({})
  /\ UNCHANGED <<game, publicState, memory>>
(* simulate enters a round: rc_round reads the memory, certify starts from *)
(* the jobs it still owes.                                                 *)
StartRound ==
  /\ phase = "idle" /\ rounds < MaxRounds /\ Unresolved # {}
  /\ phase' = "base"
  /\ guaranteed' = (IF InScope THEN base ELSE {}) \cap Unresolved
  /\ extra' = {} /\ todo' = {} /\ cand' = {}
  /\ plan' = NoPlan
  /\ StartConstruct(guaranteed')
  /\ UNCHANGED <<game, publicState, memory>>

(* simulate leaves its loop.                                               *)
StopRounds ==
  /\ phase = "idle"
  /\ rounds >= MaxRounds \/ Unresolved = {}
  /\ phase' = "done"
  /\ UNCHANGED <<game, publicState, memory, step, guaranteed, extra, todo, cand,
                 plan, construction>>

Fits == \A j \in TrialJobs : Slack(j) >= 0

(* The check _construct makes before its loop.                             *)
Check ==
  /\ phase \in Building /\ step = "check" /\ Fits
  /\ step' = "pick"
  /\ UNCHANGED <<game, publicState, memory, phase, guaranteed, extra, todo, cand,
                 plan, construction>>

(* One iteration of its loop that finds an identity.                       *)
Pick ==
  /\ phase \in Building /\ step = "pick"
  /\ \E j \in Tightest : \E i \in Best(j) :
       /\ avail' = avail \ {i}
       /\ trial' = [trial EXCEPT ![j] = @ \cup {i}]
       /\ pending' = [pending EXCEPT ![j] = @ - 1]
  /\ UNCHANGED <<game, publicState, memory, phase, step, guaranteed, extra, todo,
                 cand, plan>>

(* _construct returns a plan: the base, the job tried in certify, or the   *)
(* job tried in rc_round is served by it.                                  *)
Accept ==
  /\ phase \in Building /\ step = "pick" /\ Open = {}
  /\ plan' = trial
  /\ guaranteed' = IF phase = "grow" THEN guaranteed \cup cand ELSE guaranteed
  /\ extra' = IF phase = "extra" THEN extra \cup cand ELSE extra
  /\ cand' = {}
  /\ IF phase = "base" THEN phase' = "grow" /\ todo' = Unresolved \ guaranteed
                       ELSE UNCHANGED <<phase, todo>>
  /\ step' = "next"
  /\ UNCHANGED <<game, publicState, memory, construction>>

ConstructFails ==
  \/ step = "check" /\ ~Fits
  \/ step = "pick" /\ \E j \in Tightest : EligibleFor(j) = {}

(* _construct returns None: certify raises for its base, a tried job is    *)
(* left out.                                                               *)
Reject ==
  /\ phase \in Building /\ ConstructFails
  /\ IF phase = "base" THEN phase' = "lost witness" /\ UNCHANGED <<step, cand>>
                       ELSE phase' = phase /\ step' = "next" /\ cand' = {}
  /\ UNCHANGED <<game, publicState, memory, guaranteed, extra, todo, plan, construction>>

TryAgain ==
  /\ phase \in {"grow", "extra"} /\ step = "next"
  /\ \E j \in Foremost(todo) :
       /\ cand' = {j}
       /\ todo' = todo
       /\ StartConstruct(TrialJobs \cup {j})
  /\ UNCHANGED <<game, publicState, memory, phase, guaranteed, extra, plan>>
(* certify and rc_round try the next candidate.                            *)
TryNext ==
  /\ phase \in {"grow", "extra"} /\ step = "next"
  /\ \E j \in Foremost(todo) :
       /\ cand' = {j}
       /\ todo' = todo \ {j}
       /\ StartConstruct(TrialJobs \cup {j})
  /\ UNCHANGED <<game, publicState, memory, phase, guaranteed, extra, plan>>

Count == Cardinality(Completed) + Cardinality(guaranteed)

(* certify returns; rc_round compares with its memory and updates it.      *)
Certified ==
  /\ phase = "grow" /\ step = "next" /\ todo = {}
  /\ IF InScope /\ promised # NoCount /\ Count < promised
     THEN phase' = "lowered count" /\ UNCHANGED <<memory, todo>>
     ELSE /\ phase' = "extra"
          /\ base' = guaranteed /\ promised' = Count
          /\ root' = IF root = NoCount THEN Count ELSE root
          /\ todo' = Unresolved \ guaranteed
  /\ UNCHANGED <<game, publicState, step, guaranteed, extra, cand, plan, construction>>

ReserveKept(mask) == \A j \in guaranteed : Coverage(mask, j) >= Remaining

(* rc_round checks its plan and returns it.                                *)
Planned ==
  /\ phase = "extra" /\ step = "next" /\ todo = {}
  /\ phase' = IF InScope /\ ~ReserveKept(unused \ Assigned(plan))
              THEN "broken reserve" ELSE "play"
  /\ UNCHANGED <<game, publicState, memory, step, guaranteed, extra, todo, cand,
                 plan, construction>>

(* simulate plays the round: no assignment ends the game, otherwise the    *)
(* adversary picks who fails.                                              *)
Play ==
  /\ phase = "play" /\ Assigned(plan) # {}
  /\ \E failed \in Outcomes(plan, game.allowance + ExcessFailures) : PlayRound(plan, failed)
  /\ phase' = "idle"
  /\ UNCHANGED <<memory, step, guaranteed, extra, todo, cand, plan, construction>>

NothingToPlay ==
  /\ phase = "play" /\ Assigned(plan) = {}
  /\ phase' = "done"
  /\ UNCHANGED <<game, publicState, memory, step, guaranteed, extra, todo, cand,
                 plan, construction>>

(* simulate has returned, or rc_round has raised.                          *)
PlayStopped ==
  /\ phase \in {"done"} \cup AssertionErrors
  /\ UNCHANGED coverVars

CoverNext ==
  \/ StartRound \/ StopRounds
  \/ Check \/ Pick \/ Accept \/ Reject \/ TryNext
  \/ Certified \/ Planned
  \/ Play \/ NothingToPlay
  \/ PlayStopped

CoverSpec == CoverInit /\ [][CoverNext]_coverVars

(* simulate is one sequential loop: it takes its next step when it has one *)
FairSpec == CoverSpec /\ WF_coverVars(CoverNext)

-------------------------------------------------------------------------------
(* Properties                                                              *)

(* None of the three AssertionErrors of certify and rc_round is ever       *)
(* raised: the jobs guaranteed before keep a plan the greedy loop finds,   *)
(* the guaranteed count is not lowered, and the jobs served on top leave   *)
(* the reserve intact.                                                     *)
AssertionsHold == phase \notin AssertionErrors

(* The deficits of the jobs J as single open reports.                      *)
Slots(count, J) == UNION {{j} \X (1..count[j]) : j \in J}

(* Between rounds the jobs still owed stay recertifiable: each of them is  *)
(* compatible with enough unspent identities to cover every open report of *)
(* all owed jobs and every failure that may still come.  This is what lets *)
(* certify start from memory['guaranteed_jobs'] without a search.          *)
OwedJobs == base \cap Unresolved
OwedReports == Slots([j \in Jobs |-> Deficit(j)], OwedJobs)

OwedJobsRecertifiable ==
  phase = "idle" /\ failures <= game.allowance =>
    \A j \in OwedJobs :
      Coverage(unused, j) >= (game.allowance - failures) + Cardinality(OwedReports)

(* A planned round is exact: it spends each identity at most once, only on *)
(* a compatible job, gives a served job exactly the reports it lacks and   *)
(* any other job none, so no PASS is ever bought beyond a job's need.      *)
PlanIsExact ==
  phase = "play" =>
    \A j \in Jobs :
      /\ plan[j] \subseteq unused \cap Compatible(j)
      /\ Cardinality(plan[j]) = IF j \in guaranteed \cup extra THEN Deficit(j) ELSE 0
      /\ \A h \in Jobs \ {j} : plan[h] \cap plan[j] = {}

(* Every round either loses an identity or finishes a job, so rounds never *)
(* outnumber failures and finished jobs.                                   *)
RoundsBounded == rounds <= failures + Cardinality(Completed)

(* The root certificate is a promise: when simulate returns and no more    *)
(* identities failed than the allowance, at least root_guaranteed_count    *)
(* jobs are complete, provided max_rounds leaves room for one round per    *)
(* tolerated failure and per job.                                          *)
GuaranteeHonoured ==
  /\ phase = "done" /\ failures <= game.allowance /\ root # NoCount
  /\ game.allowance + Cardinality(Jobs) <= MaxRounds
  => Cardinality(Completed) >= root

(* A job once guaranteed stays guaranteed until it is complete, however    *)
(* the adversary spends the allowance: certify never trades it for another *)
(* job, even one that would keep the count.                                *)
PromisesKept ==
  [][failures' <= game.allowance => base \subseteq base' \cup Completed']_coverVars

(* simulate returns.                                                       *)
Returns == <>(phase = "done")

-------------------------------------------------------------------------------
(* The inductive invariant the theorems of ReserveCoverProofs rest on.     *)

ControlInv ==
  /\ \A j \in Jobs : passes[j] <= game.need[j]
  /\ step = "next" => cand = {}
  /\ phase = "base" => step # "next" /\ extra = {} /\ cand = {} /\ todo = {}
  /\ phase = "grow" => extra = {}
  /\ phase = "play" => step = "next"
  /\ phase \in Building \cup {"play"} => guaranteed \cup extra \cup cand \cup todo \subseteq Unresolved
  /\ phase \in {"extra", "play"} => base = guaranteed /\ promised = Count

WellPlanned(p) ==
  /\ \A j \in Jobs : p[j] \subseteq unused \cap Compatible(j)
  /\ \A j \in Jobs : \A h \in Jobs \ {j} : p[j] \cap p[h] = {}

(* The loop of _construct: what is assigned and what is pending add up to  *)
(* the deficits, and no slack is negative once it runs.                    *)
TrialInv ==
  phase \in Building /\ step # "next" =>
    /\ WellPlanned(trial)
    /\ avail = unused \ Assigned(trial)
    /\ \A j \in Jobs :
         pending[j] + Cardinality(trial[j]) = IF j \in TrialJobs THEN Deficit(j) ELSE 0
    /\ step = "pick" => Fits

(* The base can always be served: see OwedJobsRecertifiable.               *)
BaseInv ==
  phase = "base" =>
    IF InScope
    THEN \A j \in guaranteed :
           Coverage(avail, j) >= Remaining + Cardinality(Slots(pending, guaranteed))
    ELSE guaranteed = {}

PlanInv ==
  phase \in {"grow", "extra", "play"} =>
    /\ WellPlanned(plan)
    /\ \A j \in Jobs :
         Cardinality(plan[j]) = IF j \in guaranteed \cup extra THEN Deficit(j) ELSE 0
    /\ ReserveKept(unused \ Assigned(plan))

PromiseInv ==
  /\ root = NoCount <=> promised = NoCount
  /\ promised = NoCount => base = {}
  /\ InScope => root <= promised
  /\ InScope /\ phase = "idle" => Cardinality(Completed) + Cardinality(OwedJobs) >= promised
  /\ InScope /\ phase \in {"base", "grow"} => Count >= promised /\ OwedJobs \subseteq guaranteed
  /\ InScope /\ phase = "done" =>
       \/ Cardinality(Completed) >= promised
       \/ rounds >= MaxRounds /\ Unresolved # {}

IInv ==
  /\ TypeOK
  /\ AssertionsHold
  /\ ControlInv
  /\ TrialInv
  /\ BaseInv
  /\ PlanInv
  /\ OwedJobsRecertifiable
  /\ PromiseInv
  /\ RoundsBounded
===============================================================================
