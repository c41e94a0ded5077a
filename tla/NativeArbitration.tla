--------------------------- MODULE NativeArbitration ---------------------------
(***************************************************************************)
(* execute_native_group of depol_local.py and the exchange it runs on,     *)
(* NativeCommitments of depol_arbitration.py: estimators agree on a        *)
(* tolerance, a trainer commits to its checkpoints, three verifiers replay *)
(* the sampled intervals, everybody reveals what it committed to, and the  *)
(* reports are arbitrated by digest and, when anyone dissents, by distance.*)
(*                                                                         *)
(* The group function runs each exchange in one order; here the parties    *)
(* commit and reveal in any order the exchange accepts, may give up, and   *)
(* three of them may copy what they have seen.  A call the exchange        *)
(* refuses raises and changes nothing, so it is no step.                   *)
(*                                                                         *)
(* A checkpoint is a point on a line.  Replay is deterministic: verifiers  *)
(* v1 and v2 obtain Replay[i]; v0 may submit anything.  A commitment binds *)
(* a party to a report; nothing else can be told from it.                  *)
(*                                                                         *)
(* A digest floors a few random projections of a checkpoint, drawn anew    *)
(* for each interval: points however far apart may have the same one and   *)
(* near points different ones, so it is any function of the point.  The    *)
(* width of its cells only tells how likely either is, and is left out.    *)
(***************************************************************************)
EXTENDS Integers, FiniteSets, SequencesExt

CONSTANTS
  Intervals,    (* indices of the checkpoint intervals, all sampled        *)
  Checkpoints,  (* the points a checkpoint can be                          *)
  Replay,       (* where the honest replay of each interval ends           *)
  Submissions,  (* what the trainer and v0 may submit: [t |-> , v |-> ]    *)
  Errors,       (* the largest error and spread an estimator can measure   *)
  EpsilonFloor, EpsilonMultiplier,
  Hashes        (* what the projections of an interval may come to         *)

Diverging == [Intervals -> Checkpoints]
ASSUME ExchangeAssumption ==
  /\ Checkpoints \subseteq Int /\ Replay \in Diverging
  /\ Submissions \subseteq [t: Diverging, v: Diverging] /\ Submissions # {}
  /\ Errors \subseteq Nat /\ Hashes \subseteq [Checkpoints -> Int]
  /\ EpsilonFloor \in Nat \ {0} /\ EpsilonMultiplier \in Nat

VARIABLES
  submission, (* the checkpoints of the trainer and of v0                  *)
  hash,       (* hash[i]: the digest drawn for interval i                  *)
  measured,   (* what each estimator measured                              *)
  round,      (* which exchange runs                                       *)
  committed,  (* committed[p]: the report p is bound to                    *)
  revealed,   (* revealed[p]: the report p disclosed                       *)
  exchangeClosed, (* the exchange expired                                  *)
  agreed,     (* the tolerance the estimators agreed on                    *)
  verdict     (* what the group function returns                           *)
exchange == <<committed, revealed, exchangeClosed>>
group == <<submission, hash, measured, round, exchange, agreed, verdict>>

Estimators == {"e0", "e1", "e2"}
Verifiers == {"v0", "v1", "v2"}
Copiers == {"e0", "v0", "trainer"}  (* who may submit what is not its own   *)
Parties ==
  CASE round = "estimate" -> Estimators
    [] round = "report" -> Verifiers \cup {"trainer"}
    [] round = "distance" -> Verifiers
    [] OTHER -> {}

-------------------------------------------------------------------------------
(* What a party computes                                                   *)

State(p, i) == IF p = "trainer" THEN submission.t[i]
               ELSE IF p = "v0" THEN submission.v[i] ELSE Replay[i]

Distance(a, b) == IF a < b THEN b - a ELSE a - b
Digest(i, x) == hash[i][x]

Median(values) ==
  CHOOSE m \in {values[e] : e \in DOMAIN values} :
    /\ 2 * Cardinality({e \in DOMAIN values : values[e] < m}) <= Cardinality(DOMAIN values)
    /\ 2 * Cardinality({e \in DOMAIN values : values[e] > m}) <= Cardinality(DOMAIN values)

(* The report of p in the exchange that runs.                              *)
OwnReport(p) ==
  CASE round = "estimate" -> measured[p]
    [] round = "report" -> [i \in Intervals |-> Digest(i, State(p, i))]
    [] round = "distance" -> [i \in Intervals |->
         [q \in Verifiers \cup {"trainer"} |-> Distance(State(p, i), State(q, i))]]

-------------------------------------------------------------------------------
(* The exchange                                                            *)

MayCommit(p) ==
  ~exchangeClosed /\ p \in Parties /\ p \notin DOMAIN committed /\ DOMAIN revealed = {}

\* Mutant: any commitment to the report will do, whoever made it.
MayRevealUnbound(p, report) ==
  /\ ~exchangeClosed /\ DOMAIN committed = Parties /\ p \in Parties /\ p \notin DOMAIN revealed
  /\ committed[p].to = report

(* The report p discloses must be the one its commitment was made to, and  *)
(* made by p: a commitment is to the party and its report together.        *)
MayReveal(p, report) ==
  /\ ~exchangeClosed /\ DOMAIN committed = Parties /\ p \in Parties /\ p \notin DOMAIN revealed
  /\ committed[p] = [by |-> p, to |-> report]

Bind(f, p, value) == [q \in DOMAIN f \cup {p} |-> IF q = p THEN value ELSE f[q]]
Nobody == [p \in {} |-> p]

Seen == {revealed[q] : q \in DOMAIN revealed}

(* p commits to its own report; one that would copy commits to a report it *)
(* has seen, or repeats the commitment of another party.                   *)
Commit(p) ==
  /\ MayCommit(p)
  /\ \E seal \in {[by |-> p, to |-> OwnReport(p)]} \cup
       (IF p \in Copiers THEN {committed[q] : q \in DOMAIN committed}
                              \cup {[by |-> p, to |-> report] : report \in Seen} ELSE {}) :
       committed' = Bind(committed, p, seal)
  /\ UNCHANGED <<submission, hash, measured, round, revealed, exchangeClosed, agreed, verdict>>

Reveal(p) ==
  /\ \E report \in {OwnReport(p)} \cup (IF p \in Copiers THEN Seen ELSE {}) :
       MayReveal(p, report) /\ revealed' = Bind(revealed, p, report)
  /\ UNCHANGED <<submission, hash, measured, round, committed, exchangeClosed, agreed, verdict>>

Exchanged == Parties # {} /\ DOMAIN revealed = Parties

Held == [trainer |-> "none", eligible |-> {}, by |-> "HOLD_NATIVE_TIMEOUT_ENDPOINT"]
Expire ==
  /\ round \in {"estimate", "report", "distance"} /\ ~exchangeClosed /\ ~Exchanged
  /\ exchangeClosed' = TRUE /\ round' = "stopped" /\ verdict' = Held
  /\ UNCHANGED <<submission, hash, measured, committed, revealed, agreed>>

NextExchange(next) ==
  /\ round' = next /\ committed' = Nobody /\ revealed' = Nobody
  /\ UNCHANGED <<submission, hash, measured, exchangeClosed>>

-------------------------------------------------------------------------------
(* Arbitration                                                             *)

Agreeing(report) == {v \in Verifiers : revealed[v] = report}
EligibleByDigest == {v \in Verifiers : 2 * Cardinality(Agreeing(revealed[v])) > Cardinality(Verifiers)}
TrainerByDigest == \E v \in EligibleByDigest : revealed[v] = revealed["trainer"]
Unanimous == TrainerByDigest /\ EligibleByDigest = Verifiers

DigestVerdict ==
  [trainer |-> IF TrainerByDigest THEN "accepted" ELSE "rejected",
   eligible |-> EligibleByDigest, by |-> "digest"]

\* Mutant: one interval within the tolerance is enough.
ThresholdOnce(v) ==
  {q \in Verifiers \cup {"trainer"} : \E i \in Intervals : revealed[v][i][q] < agreed}

(* v's view: whose states stay within the tolerance of its own throughout. *)
ThresholdVector(v) ==
  {q \in Verifiers \cup {"trainer"} : \A i \in Intervals : revealed[v][i][q] < agreed}
SameVector(v) == {u \in Verifiers : ThresholdVector(u) = ThresholdVector(v)}
DistanceVerdict ==
  LET majority == {v \in Verifiers : 2 * Cardinality(SameVector(v)) > Cardinality(Verifiers)}
      selected == ThresholdVector(CHOOSE v \in majority : TRUE)
  IN  IF majority = {} THEN [trainer |-> "none", eligible |-> {}, by |-> "distance"]
      ELSE [trainer |-> IF "trainer" \in selected THEN "accepted" ELSE "rejected",
            eligible |-> selected \ {"trainer"}, by |-> "distance"]

Estimated ==
  /\ round = "estimate" /\ Exchanged
  /\ agreed' = EpsilonFloor + EpsilonMultiplier * Median(revealed)
  /\ NextExchange("report") /\ UNCHANGED verdict

Reported ==
  /\ round = "report" /\ Exchanged
  /\ verdict' = DigestVerdict
  /\ NextExchange(IF Unanimous THEN "stopped" ELSE "distance") /\ UNCHANGED agreed

Measured ==
  /\ round = "distance" /\ Exchanged
  /\ verdict' = DistanceVerdict
  /\ NextExchange("stopped") /\ UNCHANGED agreed

Open == [trainer |-> "none", eligible |-> {}, by |-> "nobody"]
ExchangeInit ==
  /\ submission \in Submissions /\ hash \in [Intervals -> Hashes]
  /\ measured \in [Estimators -> Errors]
  /\ round = "estimate" /\ committed = Nobody /\ revealed = Nobody /\ exchangeClosed = FALSE
  /\ agreed = 0 /\ verdict = Open

ExchangeNext ==
  \/ \E p \in Parties : Commit(p) \/ Reveal(p)
  \/ Expire \/ Estimated \/ Reported \/ Measured
ExchangeSpec == ExchangeInit /\ [][ExchangeNext]_group

-------------------------------------------------------------------------------
(* Properties                                                              *)

(* Nobody profits from waiting: whatever order the parties move in, every  *)
(* report that is disclosed is the one its party computed, never a copy of *)
(* a report or a commitment it has seen.                                   *)
ReportsAreOwn ==
  round # "stopped" => \A p \in DOMAIN revealed : revealed[p] = OwnReport(p)

(* Two verifiers that replay decide, against whatever the trainer and the  *)
(* third submit and whatever the digests are: everybody's digests agree    *)
(* with those of the replay and everybody is accepted, however far the     *)
(* checkpoints are, or the distances decide, and accepted is exactly who   *)
(* stays within the tolerance.  Both are eligible in any case, and without *)
(* a verdict nobody is.                                                    *)
Within(states, bound) == \A i \in Intervals : Distance(states[i], Replay[i]) < bound
SameDigests(states) == \A i \in Intervals : Digest(i, states[i]) = Digest(i, Replay[i])
DigestsAgree == SameDigests(submission.t) /\ SameDigests(submission.v)
ReplayDecides ==
  round = "stopped" =>
    /\ exchangeClosed => verdict = Held
    /\ ~exchangeClosed =>
         /\ {"v1", "v2"} \subseteq verdict.eligible
         /\ verdict.by = IF DigestsAgree THEN "digest" ELSE "distance"
         /\ verdict.trainer =
              IF DigestsAgree \/ Within(submission.t, agreed) THEN "accepted" ELSE "rejected"
         /\ "v0" \in verdict.eligible <=> DigestsAgree \/ Within(submission.v, agreed)

(* An exchange is fair: in whatever order the parties move, every          *)
(* disclosed report is its party's own, and two verifiers that replay      *)
(* decide.                                                                 *)
ExchangeFair == ReportsAreOwn /\ ReplayDecides
===============================================================================
