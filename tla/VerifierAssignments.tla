---------------------------- MODULE VerifierAssignments ----------------------------
(***************************************************************************)
(* Paid replay assignments of verifiers: what each verifier is sent        *)
(* (verifier_task_policies.py), what it reports under one of the           *)
(* registered behaviours (verifier_behaviors.py), and how its report is    *)
(* adjudicated and paid.                                                   *)
(*                                                                         *)
(* The block is a frozen bank (ReplayBank): the verdict of a replay is     *)
(* fixed, and need not be the expected one; a sentinel has a second        *)
(* verdict for the rerun of the adjudication.  A bundle is a shuffle of    *)
(* segments; only the prefix a partial replay takes depends on the order,  *)
(* so a bundle is a set and a prefix any subset of its size.               *)
(***************************************************************************)
EXTENDS Integers, FiniteSets, FiniteSetsExt, SequencesExt

CONSTANTS
  Verifiers, Jobs,
  Production, Sentinels,      (* the segments of the block, in the order   *)
  PublicOrder,                (* of their identities                       *)
  Blocks,                     (* what the bank may hold                    *)
  Mixes,                      (* which behaviour each verifier follows     *)
  Policies,                   (* the policy of a run and its parameters    *)
  Fee, Bond, Reserve

Sources == Production \cup Sentinels
Verdicts == {"pass", "fail", "none"}

(* An allocation that was made, of a block with segments.                  *)
ASSUME AllocationAssumption ==
  /\ IsFiniteSet(Verifiers) /\ Verifiers # {} /\ IsFiniteSet(Jobs) /\ Jobs # {}
  /\ IsFiniteSet(Sources) /\ Production \cap Sentinels = {}
  /\ Sources = ToSet(PublicOrder) /\ Len(PublicOrder) = Cardinality(Sources)
  /\ Fee \in Nat /\ Bond \in Nat /\ Reserve \in Nat

(* The registered policies; an audit is the same bundle for everybody.     *)
ASSUME PolicyAssumption ==
  \A p \in Policies :
    /\ p.task \in {"majority-only", "hidden-audit-v1", "hidden-sentinel-bundle"}
    /\ p.settlement \in {"adjudication", "critical-audit-v1", "majority-match"}
    /\ p.personalized \in BOOLEAN /\ (p.task = "hidden-audit-v1" => ~p.personalized)
    /\ p.count \in Nat \ {0} /\ p.threshold \in Nat \ {0}

ASSUME BlockAssumption ==
  /\ \A b \in Blocks : /\ b.expected \in [Sources -> {"pass", "fail"}]
                       /\ b.replay \in [Sources -> {"pass", "fail"}]
                       /\ b.rerun \in [Sentinels -> {"pass", "fail"}]
                       /\ b.technical \subseteq Sources
  /\ Mixes \subseteq [Verifiers -> STRING]

VARIABLES
  block, behavior, policy,  (* no step changes them                        *)
  bundles,       (* the segments of each assignment                        *)
  reports,       (* the verdicts each assignment committed to              *)
  effort,        (* how many segments were replayed for it                 *)
  settled,       (* the row of each assignment                             *)
  phase
vars == <<block, behavior, policy, bundles, reports, effort, settled, phase>>

Assignments == Verifiers \X Jobs
V(a) == a[1]
J(a) == a[2]
Extend(f, x, y) == [z \in DOMAIN f \cup {x} |-> IF z = x THEN y ELSE f[z]]
Empty == [x \in {} |-> {}]

Init ==
  /\ block \in Blocks /\ behavior \in Mixes /\ policy \in Policies
  /\ bundles = Empty /\ reports = Empty /\ effort = Empty /\ settled = Empty
  /\ phase = "prepare"

-------------------------------------------------------------------------------
(* Task policies                                                           *)

(* |left \cap right| / |left \cup right| <= maximum, in percent.           *)
JaccardWithin(left, right) ==
  100 * Cardinality(left \cap right) <= policy.maximumJaccard * Cardinality(left \cup right)

SentinelsOf(a) == bundles[a] \cap Sentinels
Earlier(a) == {b \in DOMAIN bundles : J(b) = J(a)}

\* Mutant: a subset is compared with the last one only.
SubsetsAgainstAny(a) ==
  {S \in kSubset(policy.count, Sentinels) :
     Earlier(a) = {} \/ \E b \in Earlier(a) : JaccardWithin(S, SentinelsOf(b))}

(* The subsets that differ enough from each one drawn for the job.         *)
Subsets(a) ==
  {S \in kSubset(policy.count, Sentinels) :
     \A b \in Earlier(a) : JaccardWithin(S, SentinelsOf(b))}

Place(s) == CHOOSE i \in DOMAIN PublicOrder : PublicOrder[i] = s
Prefix(n) == {s \in Sources : Place(s) <= n}
SentinelPrefix(n) ==
  {s \in Sentinels : Cardinality({r \in Sentinels : Place(r) < Place(s)}) < n}

(* The bundles the assignment can be given; none when the policy raises: a *)
(* bundle is never empty.                                                  *)
Selected(a) ==
  CASE policy.task = "majority-only" ->
         IF policy.personalized THEN {Production} ELSE {Sources}
    [] policy.task = "hidden-audit-v1" ->
         {Prefix(Max({1, (Cardinality(Sources) * policy.auditRate + 99) \div 100}))}
    [] policy.task = "hidden-sentinel-bundle" ->
         IF \/ policy.count > Cardinality(Sentinels)
            \/ policy.personalized /\ Production = {} THEN {}
         ELSE IF policy.personalized THEN {Production \cup S : S \in Subsets(a)}
         ELSE {SentinelPrefix(policy.count)}
Offered(a) == Selected(a) \ {{}}

(* Assignments are prepared in the order of jobs and verifiers, which are  *)
(* interchangeable: any order.  The next one is fixed by the choice of b.  *)
Unprepared == Assignments \ DOMAIN bundles
Prepare ==
  /\ phase = "prepare"
  /\ LET a == CHOOSE b \in Unprepared : TRUE
     IN  IF Offered(a) = {} THEN phase' = "raised" /\ UNCHANGED bundles
         ELSE /\ \E bundle \in Offered(a) : bundles' = Extend(bundles, a, bundle)
              /\ phase' = IF Unprepared = {a} THEN "report" ELSE phase
  /\ UNCHANGED <<block, behavior, policy, reports, effort, settled>>

-------------------------------------------------------------------------------
(* Behaviours                                                              *)

Replayed(S, verdict) == [s \in S |-> verdict]
Seen(S) == [s \in S |-> block.replay[s]]
Combine(f, g) == [s \in DOMAIN f \cup DOMAIN g |-> IF s \in DOMAIN f THEN f[s] ELSE g[s]]
Report(verdicts, n) == [verdicts |-> verdicts, replayed |-> n]

(* What a verifier can report of the bundle S in place of what it saw.     *)
Instead(S, verdict) ==
  [s \in S |-> IF block.replay[s] = "fail" THEN verdict ELSE "pass"]

PartialReports(S, percent) ==
  {Report(Combine(Seen(prefix), Replayed(S, "pass")), Cardinality(prefix)) :
     prefix \in {T \in SUBSET S : 100 * Cardinality(T) = percent * Cardinality(S)}}

Peers(a) == {b \in DOMAIN reports : J(b) = J(a)}
Copied(a, b) ==
  [s \in bundles[a] |-> IF s \in DOMAIN reports[b] THEN reports[b][s] ELSE "pass"]

(* The reports of a behaviour: a copy of no one passes everything; a bundle *)
(* that cannot realise the partial fraction raises.                        *)
ReportsBy(key, a) ==
  LET S == bundles[a]
      n == Cardinality(S)
  IN  CASE key = "honest" -> {Report(Seen(S), n)}
        [] key \in {"always-pass", "minority-collusion"} -> {Report(Replayed(S, "pass"), 0)}
        [] key = "always-fail" -> {Report(Replayed(S, "fail"), 0)}
        [] key = "random-report" -> {Report(guess, 0) : guess \in [S -> {"pass", "fail"}]}
        [] key = "partial-replay-50" -> PartialReports(S, 50)
        [] key = "partial-replay-25" -> PartialReports(S, 25)
        [] key = "copy-peer" ->
             IF Peers(a) = {} THEN {Report(Replayed(S, "pass"), 0)}
             ELSE {Report(Copied(a, b), 0) : b \in Peers(a)}
        [] key = "collude_cover_trainer" -> {Report(Instead(S, "pass"), n)}
        [] key = "collude_withhold" -> {Report(Instead(S, "none"), n)}
        [] key = "adaptive_recognizer" ->
             {Report(Combine(Seen(T), Replayed(S, "pass")), Cardinality(T)) : T \in SUBSET S}
        [] key = "dropout" -> {Report(Replayed(S, "none"), 0)}

Execute(a) ==
  /\ phase = "report" /\ a \notin DOMAIN reports
  /\ IF ReportsBy(behavior[V(a)], a) = {}
     THEN phase' = "raised" /\ UNCHANGED <<reports, effort>>
     ELSE /\ \E report \in ReportsBy(behavior[V(a)], a) :
               /\ reports' = Extend(reports, a, report.verdicts)
               /\ effort' = Extend(effort, a, report.replayed)
          /\ phase' = IF DOMAIN reports' = Assignments THEN "settle" ELSE phase
  /\ UNCHANGED <<block, behavior, policy, bundles, settled>>

-------------------------------------------------------------------------------
(* Adjudication and payment                                                *)

Committed(a) == \E s \in bundles[a] : reports[a][s] # "none"

\* Mutant: only an answer can be a mismatch.
AnsweredMismatches(a) ==
  {s \in SentinelsOf(a) : reports[a][s] \notin {block.expected[s], "none"}}

(* A sentinel that was not answered is a mismatch.                         *)
Mismatches(a) == {s \in SentinelsOf(a) : reports[a][s] # block.expected[s]}

(* Enough mismatches are rerun, and those count whose rerun comes out as   *)
(* expected.                                                               *)
Confirmed(a) == {s \in Mismatches(a) : block.rerun[s] = block.expected[s]}
Adjudicated(a) ==
  CASE ~Committed(a) -> "DROPOUT"
    [] Committed(a) /\ Cardinality(Mismatches(a)) < policy.threshold -> "PASS"
    [] OTHER -> IF Cardinality(Confirmed(a)) >= policy.threshold THEN "FAIL_CONFIRMED"
                ELSE "TECHNICAL_FAILURE"

(* The threshold score of critical-audit-v1: every segment, no rerun.      *)
Comparable(a) == bundles[a] \ block.technical
Scored(a) ==
  CASE ~Committed(a) -> "DROPOUT"
    [] Committed(a) /\ Comparable(a) = {} -> "TECHNICAL_FAILURE"
    [] OTHER -> IF Cardinality({s \in Comparable(a) : reports[a][s] # block.expected[s]})
                     >= policy.threshold
                THEN "FAIL_CONFIRMED" ELSE "PASS"

(* Votes are counted per job and source segment; a tie passes it.          *)
Voted(a) == IF policy.personalized THEN bundles[a] \cap Production ELSE bundles[a]
VotesFor(a, s, verdict) ==
  {b \in Assignments : (policy.personalized => J(b) = J(a)) /\ s \in Voted(b)
                       /\ reports[b][s] = verdict}
MajorityOf(a, s) ==
  IF Cardinality(VotesFor(a, s, "pass")) >= Cardinality(VotesFor(a, s, "fail"))
  THEN "pass" ELSE "fail"
Matched(a) ==
  IF ~Committed(a) THEN "DROPOUT"
  ELSE IF Voted(a) # {} /\ \A s \in Voted(a) : reports[a][s] = MajorityOf(a, s)
  THEN "PASS" ELSE "FAIL_CONFIRMED"

Row(status, fee, bond) ==
  [status |-> status, fee |-> IF status = "PASS" THEN fee ELSE 0,
   refundable |-> IF status \in {"FAIL_CONFIRMED", "DROPOUT"} THEN 0 ELSE bond,
   slashed |-> IF status \in {"FAIL_CONFIRMED", "DROPOUT"} THEN bond ELSE 0]
RowOf(a) ==
  CASE policy.settlement = "adjudication" -> Row(Adjudicated(a), 0, 0)
    [] policy.settlement = "critical-audit-v1" -> Row(Scored(a), Fee, Bond)
    [] policy.settlement = "majority-match" -> Row(Matched(a), Fee, 0)

Settle ==
  /\ phase = "settle"
  /\ settled' = [a \in Assignments |-> RowOf(a)]
  /\ phase' = "settled"
  /\ UNCHANGED <<block, behavior, policy, bundles, reports, effort>>

Next == Prepare \/ (\E a \in Assignments : Execute(a)) \/ Settle
Spec == Init /\ [][Next]_vars

(* aggregate_settlements                                                   *)
Statuses == {settled[a].status : a \in DOMAIN settled}
OutcomeStatus ==
  CASE "FAIL_CONFIRMED" \in Statuses -> "FAIL_CONFIRMED"
    [] Statuses = {"DROPOUT"} -> "DROPOUT"
    [] "TECHNICAL_FAILURE" \in Statuses
         /\ Statuses \subseteq {"TECHNICAL_FAILURE", "DROPOUT"} -> "TECHNICAL_FAILURE"
    [] OTHER -> "PASS"
Fees == [a \in DOMAIN settled |-> settled[a].fee]
OwnerExpenditure == MapThenSumSet(LAMBDA a : Fees[a], DOMAIN settled) + Reserve

-------------------------------------------------------------------------------
(* Properties                                                              *)

(* Personalised bundles hold all of the production and the agreed number   *)
(* of sentinels, and those of two verifiers of one job overlap no more     *)
(* than agreed, whichever were drawn first.                                *)
BundlesDiffer ==
  (policy.task = "hidden-sentinel-bundle" /\ policy.personalized) =>
    \A a \in DOMAIN bundles :
      /\ Production \subseteq bundles[a] /\ Cardinality(SentinelsOf(a)) = policy.count
      /\ \A b \in DOMAIN bundles \ {a} :
           J(a) = J(b) => JaccardWithin(SentinelsOf(a), SentinelsOf(b))

Honest(a) == behavior[V(a)] = "honest"
Repeats(S) == \A s \in S : block.replay[s] = block.expected[s] /\ block.rerun[s] = block.expected[s]
Contradicted(a) == {s \in SentinelsOf(a) : reports[a][s] # block.expected[s]}

(* Adjudication never blames a verifier for the device: an honest one      *)
(* fails only where its replay and the rerun of the adjudicator differ.    *)
(* Where replays repeat themselves it is exact, and neither withholding,   *)
(* copying a peer nor a lucky guess passes with too many sentinels wrong.  *)
AdjudicationJust ==
  (phase = "settled" /\ policy.settlement = "adjudication") =>
    \A a \in Assignments :
      LET status == settled[a].status
      IN  /\ (Honest(a) /\ status = "FAIL_CONFIRMED") =>
               Cardinality({s \in SentinelsOf(a) : block.replay[s] # block.rerun[s]})
                 >= policy.threshold
          /\ Honest(a) => status # "DROPOUT"
          /\ Repeats(SentinelsOf(a)) =>
               /\ status = "PASS" <=> (\E s \in bundles[a] : reports[a][s] # "none")
                                        /\ Cardinality(Contradicted(a)) < policy.threshold
               /\ status # "TECHNICAL_FAILURE"
               /\ (effort[a] = 0 /\ status = "PASS"
                     /\ behavior[V(a)] \in {"always-pass", "minority-collusion"}) =>
                    Cardinality({s \in SentinelsOf(a) : block.expected[s] = "fail"})
                      < policy.threshold

(* The majority does not turn on an honest verifier that is in it: it goes *)
(* unpaid only where as many voted against it, and two verifiers that are  *)
(* paid for one job agree wherever both voted, a vote withheld included.   *)
MajorityJust ==
  (phase = "settled" /\ policy.settlement = "majority-match") =>
    \A a \in Assignments :
      /\ (Honest(a) /\ settled[a].status # "PASS") =>
           \E s \in Voted(a), verdict \in {"pass", "fail"} :
             /\ verdict # block.replay[s]
             /\ Cardinality(VotesFor(a, s, verdict)) >= Cardinality(VotesFor(a, s, block.replay[s]))
      /\ \A b \in Assignments :
           (J(a) = J(b) /\ settled[a].fee > 0 /\ settled[b].fee > 0) =>
             \A s \in Voted(a) \cap Voted(b) : reports[a][s] = reports[b][s] /\ reports[a][s] # "none"

(* The threshold score slashes no honest verifier for less than as many    *)
(* replays that came out unexpected, technical failures set aside.         *)
ScoreJust ==
  (phase = "settled" /\ policy.settlement = "critical-audit-v1") =>
    \A a \in Assignments :
      (Honest(a) /\ settled[a].slashed > 0) =>
        Cardinality({s \in bundles[a] \ block.technical : block.replay[s] # block.expected[s]})
          >= policy.threshold

(* Each settlement of a policy is just, and none costs the owner more than *)
(* the fees of the whole committee and its reserve.                        *)
SettlementJust ==
  /\ AdjudicationJust /\ MajorityJust /\ ScoreJust
  /\ phase = "settled" => OwnerExpenditure <= Fee * Cardinality(Assignments) + Reserve
===============================================================================
