----------------------------- MODULE ExactRecovery -----------------------------
(***************************************************************************)
(* The planners of recovery_game.py and executable_recovery.py that look   *)
(* ahead: play by the exact solver, the certificate taken from it, the     *)
(* shield that lets a matching choose as long as nothing guaranteed is     *)
(* lost, and the wave matching they are compared with.                     *)
(*                                                                         *)
(* A position is <<remaining, counts, b>>: the identities not assigned     *)
(* yet, the passes of each job, and how many may still fail, as the        *)
(* solver's cache is keyed.  The cache is filled by the number of          *)
(* remaining identities, so a position finds what it needs in the layer    *)
(* below.  The code registers nine identities, two jobs of three reports   *)
(* and an allowance of two; here these are the game's.                     *)
(*                                                                         *)
(* Of the joint matching that proposes actions to the shield, the          *)
(* JointMatchings of ExecutedRecovery, only this is kept: it proposes some *)
(* assignment whenever one is possible.                                    *)
(***************************************************************************)
EXTENDS RecoveryGame, Sequences

CONSTANTS
  Caps,            (* caps on a job's assignments: a budget in assignments *)
  Excess,          (* failures the adversary may cause beyond the allowance*)
  Cache            (* the solver's cache of each game: Filled(Games)       *)

VARIABLES
  controller,  (* who selects                                              *)
  cap,         (* how many assignments the budget of a job pays            *)
  at,          (* "asked" for, in "play", "deferred" before it, or "done"  *)
  fallen,      (* Adversary.failed                                         *)
  rootValue,   (* the certified value of the first position, or Unknown    *)
  pledged      (* guaranteed_count of the last round, or Unknown           *)

exactVars == <<game, publicState, controller, cap, at, fallen, rootValue, pledged>>

Unknown == -1
CertifiedPlanner == "execution-certified-ecs-v2"
Exact == "value-preserving-exact"
Shield == "action-certified-ecs-v3"
Filtered == "current-state-matching-v3"
Wave == "matching-wave-ecs"
Controllers == {CertifiedPlanner, Exact, Shield, Filtered, Wave}
Planning == {CertifiedPlanner, Exact, Shield}

Least(S) == CHOOSE n \in S : \A m \in S : n <= m
Greatest(S) == CHOOSE n \in S : \A m \in S : m <= n
MaxNeed(g) == Greatest({g.need[j] : j \in Jobs})

-------------------------------------------------------------------------------
(* The exact value                                                         *)

Done(g, counts) == Cardinality({j \in Jobs : counts[j] >= g.need[j]})
Options(g, remaining, counts) ==
  {a \in Jobs \X remaining : counts[a[1]] < g.need[a[1]] /\ a[1] \in g.compat[a[2]]}
WithPass(counts, j) == [counts EXCEPT ![j] = @ + 1]

(* Keys of the cache with `size' identities remaining.                     *)
CountsWithin(g) == {c \in [Jobs -> 0..MaxNeed(g)] : \A j \in Jobs : c[j] <= g.need[j]}
Positions(g, size) ==
  {r \in SUBSET Identities : Cardinality(r) = size} \X CountsWithin(g) \X (0..g.allowance)

\* Mutant: nobody fails after this.
WorstNeverFailing(below, remaining, counts, b, j, i) ==
  below[<<remaining \ {i}, WithPass(counts, j), b>>].value
(* What is sure if an identity is assigned and fails or not, and what is   *)
(* reached if nobody fails any more.                                       *)
Worst(below, remaining, counts, b, j, i) ==
  LET success == below[<<remaining \ {i}, WithPass(counts, j), b>>].value
  IN  IF b = 0 THEN success
      ELSE Least({success, below[<<remaining \ {i}, counts, b - 1>>].value})
Optimistic(below, remaining, counts, j, i) ==
  below[<<remaining \ {i}, WithPass(counts, j), 0>>].value

(* The sort key of an option as one number: worst and optimistic value     *)
(* descending, flexibility, job, identity ascending.                       *)
Weight == Cardinality(Jobs) + 1
RankOf(g, worst, optimistic, j, i) ==
  LET last == 1 + Greatest(Identities)
  IN  (((Weight - worst) * Weight - optimistic) * Weight + Cardinality(g.compat[i])) * Weight * last
        + j * last + i

(* Choice of the least key, and what solve returns: a value and at most    *)
(* one action.                                                             *)
Leading(ranks) == CHOOSE a \in DOMAIN ranks : \A o \in DOMAIN ranks : ranks[a] <= ranks[o]
Led(action, value) == [value |-> value, moves |-> {action}]
BestOption(ranks, worsts) == Led(Leading(ranks), worsts[Leading(ranks)])
BestRanked(g, below, remaining, counts, worsts) ==
  BestOption([a \in DOMAIN worsts |->
          RankOf(g, worsts[a], Optimistic(below, remaining, counts, a[1], a[2]), a[1], a[2])],
       worsts)
Solution(g, below, remaining, counts, b) ==
  IF Options(g, remaining, counts) = {} THEN [value |-> Done(g, counts), moves |-> {}]
  ELSE BestRanked(g, below, remaining, counts,
              [a \in Options(g, remaining, counts) |->
                 Worst(below, remaining, counts, b, a[1], a[2])])

(* A layer of the cache over those of fewer identities.                    *)
Over(layer, below) ==
  IF below = <<>> THEN layer
  ELSE [p \in DOMAIN layer \cup DOMAIN below |-> IF p \in DOMAIN below THEN below[p] ELSE layer[p]]
Layered(g, below, size) ==
  Over([p \in Positions(g, size) |-> Solution(g, below, p[1], p[2], p[3])], below)
Solved(g) ==
  LET layers[size \in Nat] == Layered(g, IF size = 0 THEN <<>> ELSE layers[size - 1], size)
  IN layers[Cardinality(Identities)]
Filled(games) == [g \in games |-> Solved(g)]

(* Jobs are numbered from 0, as the sort key relies on.                    *)
ExactAssumption ==
  Jobs = 0..(Cardinality(Jobs) - 1) /\ Caps \subseteq Nat /\ Cache = Filled(Games)

-------------------------------------------------------------------------------
(* The auditor of recovery_enumeration.py solves the same game over the    *)
(* sets of identities that may be failing, not over their number.          *)

Hypotheses(remaining, b) == {h \in SUBSET remaining : Cardinality(h) <= b}
Spared(hypotheses, i) == {h \in hypotheses : i \notin h}
Blamed(hypotheses, i) == {h \ {i} : h \in {g \in hypotheses : i \in g}}
AuditedWorst(below, remaining, counts, hypotheses, j, i) ==
  Least({below[<<remaining \ {i}, WithPass(counts, j), h>>].value : h \in {Spared(hypotheses, i)} \ {{}}}
          \cup {below[<<remaining \ {i}, counts, h>>].value : h \in {Blamed(hypotheses, i)} \ {{}}})
AuditedOptimistic(below, remaining, counts, j, i) ==
  below[<<remaining \ {i}, WithPass(counts, j), {{}}>>].value
AuditedRank(g, below, remaining, counts, worsts) ==
  BestOption([a \in DOMAIN worsts |->
          RankOf(g, worsts[a], AuditedOptimistic(below, remaining, counts, a[1], a[2]), a[1], a[2])],
       worsts)
AuditedSolution(g, below, remaining, counts, hypotheses) ==
  IF Options(g, remaining, counts) = {} THEN [value |-> Done(g, counts), moves |-> {}]
  ELSE AuditedRank(g, below, remaining, counts,
                   [a \in Options(g, remaining, counts) |->
                      AuditedWorst(below, remaining, counts, hypotheses, a[1], a[2])])

AuditedPositions(g, size) ==
  {<<p[1], p[2], Hypotheses(p[1], p[3])>> : p \in Positions(g, size)}
AuditedLayer(g, below, size) ==
  Over([p \in AuditedPositions(g, size) |-> AuditedSolution(g, below, p[1], p[2], p[3])], below)
Audited(g) ==
  LET layers[size \in Nat] == AuditedLayer(g, IF size = 0 THEN <<>> ELSE layers[size - 1], size)
  IN layers[Cardinality(Identities)]

-------------------------------------------------------------------------------
(* Matching                                                                *)

(* _augment: whoever is seen stays seen, whatever became of it.  `owner'   *)
(* is total: an identity that is not matched is owned by NoJob.            *)
NoJob == -1
Searches == [owner : [Identities -> Jobs \cup {NoJob}], seen : SUBSET Identities, found : BOOLEAN]
Askable(g, j, avail, seen) == {i \in avail : j \in g.compat[i]} \ seen
Seeing(search, i) == [search EXCEPT !.seen = @ \cup {i}]
Taken(search, j, i) == [search EXCEPT !.owner[i] = j, !.found = TRUE]
\* Mutant: an identity that is taken is not asked to move.
AugmentFromFree(augment, j, search, i) ==
  IF search.owner[i] = NoJob THEN Taken(Seeing(search, i), j, i) ELSE augment[<<j, Seeing(search, i)>>]
AugmentFrom(augment, j, search, i) ==
  IF search.owner[i] = NoJob THEN Taken(Seeing(search, i), j, i)
  ELSE LET moved == augment[<<search.owner[i], Seeing(search, i)>>]
       IN  IF moved.found THEN Taken(moved, j, i) ELSE augment[<<j, moved>>]
AugmentNext(g, avail, augment, j, search) ==
  LET askable == Askable(g, j, avail, search.seen)
  IN  IF askable = {} THEN [search EXCEPT !.found = FALSE]
      ELSE AugmentFrom(augment, j, search, Least(askable))
Augment(g, avail) ==
  LET augment[call \in Jobs \X Searches] == AugmentNext(g, avail, augment, call[1], call[2])
  IN augment

(* slot_matching: an owner of each matched identity.                       *)
Augmented(augment, j, owner) == augment[<<j, [owner |-> owner, seen |-> {}, found |-> FALSE]>>].owner
SlotMatching(g, avail, slots) ==
  LET augment == Augment(g, avail)
      owner[n \in 0..Len(slots)] ==
        IF n = 0 THEN [i \in Identities |-> NoJob] ELSE Augmented(augment, slots[n], owner[n - 1])
  IN owner[Len(slots)]
Owned(owner) == {i \in Identities : owner[i] # NoJob}

(* Each job as often as it counts, in the order of the keys.               *)
Places(J, count) == UNION {{j} \X (1..count[j]) : j \in J}
SlotList(J, count, key) ==
  LET places == Places(J, count)
      before == [j \in J |-> Cardinality({p \in places : key[p[1]] < key[j]})]
  IN  [n \in 1..Cardinality(places) |-> CHOOSE j \in J : n - before[j] \in 1..count[j]]
InTurn == [j \in Jobs |-> j]
FeasibleJobs(g, avail, J) ==
  LET slots == SlotList(J, g.need, InTurn)
  IN  Cardinality(Owned(SlotMatching(g, avail, slots))) = Len(slots)
OfflineMaximum(g, failing) ==
  LET avail == Identities \ failing
      viable == {j \in Jobs : Cardinality({i \in avail : j \in g.compat[i]}) >= g.need[j]}
  IN  Greatest({0} \cup {Cardinality(J) : J \in {V \in SUBSET viable : FeasibleJobs(g, avail, V)}})

-------------------------------------------------------------------------------
(* Selection                                                               *)

Position == <<unused, passes, Remaining>>
Value == Cache[game][Position].value
Moves == Cache[game][Position].moves

(* execution_certificate; the reserve of an assignment is the unit.        *)
CertificatePassed == Value = Cardinality(Jobs) /\ cap >= Cardinality(Identities)

Proposals ==
  IF Options(game, unused, passes) = {} THEN {{}} ELSE {{a} : a \in Options(game, unused, passes)}

(* select_filtered_action with the shield.                                 *)
Keeps(a) == Worst(Cache[game], unused, passes, Remaining, a[1], a[2]) >= Value
\* Mutant: the proposal stands.
ShieldedAgainstNothing(proposal) == proposal
Shielded(proposal) == IF \A a \in proposal : Keeps(a) THEN proposal ELSE Moves

(* matching_round: a slot per missing report first, then one per job.      *)
Deficits == [j \in Jobs |-> Deficit(j)]
NeedierFirst == [j \in Jobs |-> Deficit(j) * Weight + j]
RoundSlots ==
  IF rounds = 0 THEN SlotList(Unresolved, Deficits, InTurn)
  ELSE SlotList(Unresolved, [j \in Jobs |-> 1], NeedierFirst)
Matched == LET owner == SlotMatching(game, unused, RoundSlots) IN {<<owner[i], i>> : i \in Owned(owner)}

Selections ==
  CASE controller \in {CertifiedPlanner, Exact} -> {Moves}
    [] controller = Filtered -> Proposals
    [] controller = Shield -> {Shielded(p) : p \in Proposals}
    [] controller = Wave -> {Matched}

(* What the cap leaves of a selection, as a plan.                          *)
Affordable(selection) == {a \in selection : attempts[a[1]] < cap}
PlanOf(selection) == [j \in Jobs |-> {i \in Identities : <<j, i>> \in selection}]

ExactInit ==
  /\ PublicInit
  /\ controller \in Controllers /\ cap \in Caps
  /\ at = "asked" /\ fallen = {} /\ rootValue = Unknown /\ pledged = Unknown

others == <<game, controller, cap>>

(* The certificate of the first position; one controller defers by it.     *)
Certify ==
  /\ at = "asked"
  /\ rootValue' = IF controller \in Planning THEN Value ELSE Unknown
  /\ at' = IF controller = CertifiedPlanner /\ ~CertificatePassed THEN "deferred" ELSE "play"
  /\ UNCHANGED <<publicState, others, fallen, pledged>>

Playing == at = "play" /\ Unresolved # {}

(* One turn of the loop that has somebody to assign.                       *)
PlayTurn ==
  /\ Playing
  /\ \E selection \in Selections :
       LET plan == PlanOf(Affordable(selection)) IN
       /\ Assigned(plan) # {}
       /\ \E failing \in Outcomes(plan, game.allowance + Excess) :
            /\ PlayRound(plan, failing)
            /\ fallen' = fallen \cup failing
  /\ pledged' = IF controller \in Planning THEN Value ELSE Unknown
  /\ UNCHANGED <<controller, cap, at, rootValue>>

(* The jobs are complete, or nobody can be assigned.                       *)
EndPlay ==
  /\ at = "play"
  /\ Unresolved = {} \/ \E selection \in Selections : Affordable(selection) = {}
  /\ at' = "done"
  /\ UNCHANGED <<publicState, others, fallen, rootValue, pledged>>

Ended == at \in {"deferred", "done"} /\ UNCHANGED exactVars

ExactNext == Certify \/ PlayTurn \/ EndPlay \/ Ended
ExactSpec == ExactInit /\ [][ExactNext]_exactVars

-------------------------------------------------------------------------------
ExactTypeOK ==
  /\ PublicTypeOK
  /\ controller \in Controllers /\ cap \in Caps
  /\ at \in {"asked", "play", "deferred", "done"}
  /\ fallen \in SUBSET Identities
  /\ rootValue \in Nat \cup {Unknown} /\ pledged \in Nat \cup {Unknown}

(* A planner never lets what it guarantees fall while no more identities   *)
(* fail than allowed, and what was certified at first is completed in the  *)
(* end, whoever failed, if the budget pays for it.                         *)
PromiseHeld ==
  controller \in Planning /\ InScope /\ cap >= Cardinality(Identities) =>
    /\ Value >= pledged /\ Value >= rootValue
    /\ at = "done" => Cardinality(Completed) >= rootValue

(* A certified call completes every job within the budget it was shown.    *)
CertificateKept ==
  controller = CertifiedPlanner /\ at = "done" => (InScope => Unresolved = {})

(* Nobody completes more than is possible knowing who fails, and what is   *)
(* certified is possible whichever identities fail.                        *)
WithinOffline ==
  /\ at = "done" => Cardinality(Completed) <= OfflineMaximum(game, fallen)
  /\ at = "play" /\ rounds = 0 =>
       \A failing \in SUBSET Identities :
         Cardinality(failing) <= game.allowance => rootValue <= OfflineMaximum(game, failing)

(* A reserve cover of some jobs (disjoint primaries, and for each job as   *)
(* many more compatible identities as may fail) is worth its jobs to the   *)
(* exact solver.                                                           *)
ReserveCovers(plan, J) ==
  /\ \A j \in J : plan[j] \subseteq unused \cap Compatible(j) /\ Cardinality(plan[j]) = Deficit(j)
  /\ \A j, h \in J : j # h => plan[j] \cap plan[h] = {}
  /\ \A j \in J : Coverage(unused \ UNION {plan[h] : h \in J}, j) >= Remaining
CoversAreWorth ==
  at = "play" /\ rounds = 0 /\ controller = Exact =>
    \A J \in SUBSET Unresolved :
      (\E plan \in [J -> SUBSET unused] : ReserveCovers(plan, J)) =>
        Value >= Cardinality(Completed) + Cardinality(J)

(* The slot matching is as large as any: by Koenig's theorem, as large as  *)
(* the smallest sum of the slots of some jobs and the identities that      *)
(* serve the others.                                                       *)
SlotsOf(J) == Cardinality({k \in DOMAIN RoundSlots : RoundSlots[k] \in J})
MatchingIsMaximum ==
  controller = Wave /\ Playing =>
    Cardinality(Matched) =
      Least({SlotsOf(Jobs \ J) + Cardinality(unused \cap UNION {Compatible(j) : j \in J}) :
               J \in SUBSET Jobs})

(* The independent auditor finds the solver's value and its action at      *)
(* every position.                                                         *)
AuditAgrees ==
  at = "play" /\ rounds = 0 /\ controller = Exact =>
    LET audited == Audited(game)
    IN  \A p \in DOMAIN Cache[game] :
          audited[<<p[1], p[2], Hypotheses(p[1], p[3])>>] = Cache[game][p]

ExactSound ==
  PromiseHeld /\ CertificateKept /\ WithinOffline /\ CoversAreWorth /\ MatchingIsMaximum /\ AuditAgrees
===============================================================================
