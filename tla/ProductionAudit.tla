------------------------------- MODULE ProductionAudit -------------------------------
(***************************************************************************)
(* production_audit.py: audits of the production answers of a report.      *)
(*                                                                         *)
(* The transcript is the protocol of the paper: nine states in one order,  *)
(* the sample ranked by a hash of both commitments and of the nonce the    *)
(* owner reveals after them.  The service uses a challenge of its own: the *)
(* owner commits to a secret before the verifier reports, and opens it     *)
(* once, when it settles the report under one of the admission policies.   *)
(*                                                                         *)
(* A hash is arbitrary: the sample a key ranks first is any, and as no key *)
(* is asked for twice it need not be kept.  Verifiers report what they     *)
(* like.                                                                   *)
(***************************************************************************)
EXTENDS Integers, FiniteSets, FiniteSetsExt, Sequences, Combinatorics

CONSTANTS
  Produced, Probes,       (* tasks of the service: 32 and 8 in the code     *)
  Truth,                  (* the answer of each task                       *)
  FewAudited,             (* 8: the audit that is not of everything        *)
  ProbeThreshold,         (* 2: probes that must be answered wrongly       *)
  AuditFee, AuditBond,
  Reported,               (* the answers a verifier may report             *)
  Values,                 (* commitments and nonces of a transcript        *)
  MaxCalls                (* calls of advance, or of the settlement        *)

Tasks == Produced \cup Probes
None == "none"
Unset == ""      (* a commitment or nonce not given yet                  *)

ASSUME AuditAssumption ==
  /\ IsFiniteSet(Produced) /\ IsFiniteSet(Probes) /\ Produced \cap Probes = {}
  /\ Truth \in [Tasks -> {"true", "false"}]
  /\ FewAudited \in 1..Cardinality(Produced) /\ ProbeThreshold \in 1..Cardinality(Probes)
  /\ AuditFee \in Nat /\ AuditBond \in Nat /\ MaxCalls \in Nat
  /\ Reported \subseteq [Tasks -> {"true", "false", None}]

VARIABLES
  transcript,     (* state, commitments, nonce, selected                   *)
  assignment,     (* the tasks delivered and the report on them            *)
  challenge,      (* the secret committed for the assignment               *)
  settlements,    (* those that were returned, with their receipts         *)
  calls
audit == <<transcript, assignment, challenge, settlements, calls>>

AuditInit ==
  /\ transcript = [state |-> 0, trainer |-> Unset, report |-> Unset, nonce |-> Unset, selected |-> {}]
  /\ assignment = <<>> /\ challenge = "none" /\ settlements = <<>> /\ calls = 0

(* select_audit_indices                                                    *)
SamplesOf(population, count) == kSubset(count, population)

-------------------------------------------------------------------------------
(* The transcript                                                          *)

PROTOCOL_STATES ==
  <<"TERMS_PUBLISHED", "TRAINER_ALLOCATED", "TRAJECTORY_COMMITTED", "REPLAY_ASSIGNED",
    "REPORT_COMMITTED", "OWNER_RANDOMNESS_REVEALED", "PRODUCTION_AUDIT_SELECTED",
    "REPORT_REVEALED", "SETTLED_OR_DEFERRED">>
State == IF transcript.state = 0 THEN "INITIAL" ELSE PROTOCOL_STATES[transcript.state]

IsNext(target) ==
  /\ transcript.state < Len(PROTOCOL_STATES)
  /\ PROTOCOL_STATES[transcript.state + 1] = target

(* A commitment or nonce is set before the check that it is not empty,     *)
(* which raises short of the transition.                                   *)
Accepted(value) == IF value = Unset THEN transcript.state ELSE transcript.state + 1
Bare(target) ==
  target \notin {"TRAJECTORY_COMMITTED", "REPORT_COMMITTED", "OWNER_RANDOMNESS_REVEALED",
                 "PRODUCTION_AUDIT_SELECTED"}

AdvanceTo(target, value, count) ==
  \/ /\ Bare(target)
     /\ transcript' = [transcript EXCEPT !.state = @ + 1]
  \/ /\ target = "TRAJECTORY_COMMITTED"
     /\ transcript' = [transcript EXCEPT !.trainer = value, !.state = Accepted(value)]
  \/ /\ target = "REPORT_COMMITTED"
     /\ transcript' = [transcript EXCEPT !.report = value, !.state = Accepted(value)]
  \/ /\ target = "OWNER_RANDOMNESS_REVEALED"
     /\ IF transcript.trainer = Unset \/ transcript.report = Unset THEN UNCHANGED transcript
        ELSE transcript' = [transcript EXCEPT !.nonce = value, !.state = Accepted(value)]
  \/ /\ target = "PRODUCTION_AUDIT_SELECTED"
     /\ IF count > Cardinality(Produced) \/ Unset \in {transcript.trainer, transcript.report, transcript.nonce}
        THEN UNCHANGED transcript
        ELSE \E S \in SamplesOf(Produced, count) :
               transcript' = [transcript EXCEPT !.selected = S, !.state = @ + 1]

(* advance: any target, with any value and any number to audit.            *)
Advance(target, value, count) ==
  /\ calls < MaxCalls /\ challenge = "none"
  /\ calls' = calls + 1
  /\ IF IsNext(target) THEN AdvanceTo(target, value, count) ELSE UNCHANGED transcript
  /\ UNCHANGED <<assignment, challenge, settlements>>

-------------------------------------------------------------------------------
(* The service                                                             *)

ProbedPolicies == {"rcmp-source-coupled", "rcmp-production-audit-8", "rcmp-production-audit-all"}
AuditOnlyPolicies == {"production-audit-only-8", "production-audit-only-all"}
AuditCount(key) ==
  IF key = "rcmp-source-coupled" THEN 0
  ELSE IF key \in {"rcmp-production-audit-8", "production-audit-only-8"} THEN FewAudited
  ELSE Cardinality(Produced)
ADMISSION_POLICIES ==
  [key \in ProbedPolicies \cup AuditOnlyPolicies |->
     [probes |-> key \in ProbedPolicies, count |-> AuditCount(key)]]

delivered_policy_tasks(key) == IF ADMISSION_POLICIES[key].probes THEN Tasks ELSE Produced

(* The owner commits to its secret, then the verifier executes, commits    *)
(* and reveals its report; a report of omissions only cannot be revealed.  *)
Assign(key) ==
  /\ challenge = "none" /\ transcript.state = 0 /\ calls = 0
  /\ challenge' = "committed"
  /\ \E answers \in Reported :
       LET verdicts == [t \in delivered_policy_tasks(key) |-> answers[t]]
       IN  /\ \E t \in DOMAIN verdicts : verdicts[t] # None
           /\ assignment' = [verdicts |-> verdicts]
  /\ UNCHANGED <<transcript, settlements, calls>>

Misreported(verdicts, counted) == {t \in counted : verdicts[t] # Truth[t]}
StatusOver(counted, verdicts, threshold) ==
  IF counted = {} THEN "TECHNICAL_FAILURE"
  ELSE IF Cardinality(Misreported(verdicts, counted)) >= threshold THEN "FAIL_CONFIRMED"
  ELSE "PASS"

(* The result of the probes, unless they pass and production is audited.   *)
StatusOf(verdicts, policy, selected) ==
  LET audited == StatusOver(selected, verdicts, 1)
      probed == StatusOver(Probes, verdicts, ProbeThreshold)
  IN  IF policy.count = 0 \/ (policy.probes /\ probed # "PASS") THEN probed ELSE audited

\* Mutant: nothing is kept of an earlier opening.
RefusedForPopulation(key, verdicts) == DOMAIN verdicts # delivered_policy_tasks(key)

(* A report of another population is refused before the challenge is       *)
(* opened, a second opening by the challenge.                              *)
Refused(key, verdicts) ==
  DOMAIN verdicts # delivered_policy_tasks(key) \/ challenge = "used"

(* settle_audited_service                                                  *)
Receipt(key, verdicts, selected) ==
  LET status == StatusOf(verdicts, ADMISSION_POLICIES[key], selected)
  IN  [policy |-> key, selected |-> selected, status |-> status,
       fee |-> IF status = "PASS" THEN AuditFee ELSE 0,
       slashed |-> IF status = "FAIL_CONFIRMED" THEN AuditBond ELSE 0]
SettleAudited(key) ==
  /\ challenge # "none" /\ calls < MaxCalls
  /\ calls' = calls + 1
  /\ IF Refused(key, assignment.verdicts) THEN UNCHANGED <<challenge, settlements>>
     ELSE \E selected \in SamplesOf(Produced, ADMISSION_POLICIES[key].count) :
            /\ challenge' = "used"
            /\ settlements' = Append(settlements, Receipt(key, assignment.verdicts, selected))
  /\ UNCHANGED <<transcript, assignment>>

AuditNext ==
  \/ \E target \in {PROTOCOL_STATES[k] : k \in DOMAIN PROTOCOL_STATES},
        value \in Values \cup {Unset}, count \in {FewAudited, Cardinality(Produced) + 1} :
       Advance(target, value, count)
  \/ \E key \in DOMAIN ADMISSION_POLICIES : Assign(key) \/ SettleAudited(key)
AuditSpec == AuditInit /\ [][AuditNext]_audit

-------------------------------------------------------------------------------
(* Properties                                                              *)

(* hypergeometric_hit_probability, as a count of the samples that hit.     *)
SamplesHitting(q, forged, count) ==
  IF forged = 0 \/ count = 0 THEN 0
  ELSE IF count > q - forged THEN choose(q, count)
  ELSE choose(q, count) - choose(q - forged, count)

(* The nonce comes after both commitments and fixes the sample with them:  *)
(* no call, refused or not, changes a commitment once there is a nonce, or *)
(* the sample once there is one.                                           *)
TranscriptBinds ==
  /\ transcript.nonce # Unset =>
       /\ transcript.trainer # Unset /\ transcript.report # Unset
       /\ transcript'.trainer = transcript.trainer /\ transcript'.report = transcript.report
  /\ State \in {"PRODUCTION_AUDIT_SELECTED", "REPORT_REVEALED", "SETTLED_OR_DEFERRED"} =>
       transcript'.nonce = transcript.nonce /\ transcript'.selected = transcript.selected

(* What a report misstates of production, whether its probes fail it, and  *)
(* the samples under which it does not pass.                               *)
Forged(verdicts) == Misreported(verdicts, Produced)
Misprobed(policy, verdicts) ==
  policy.probes /\ Cardinality(Misreported(verdicts, Probes)) >= ProbeThreshold
FailingSamples(policy, verdicts) ==
  {S \in SamplesOf(Produced, policy.count) : StatusOf(verdicts, policy, S) # "PASS"}

(* A receipt follows from the report and the sample, and the chance of it  *)
(* is the published one.                                                   *)
ReceiptExact(row, verdicts) ==
  LET policy == ADMISSION_POLICIES[row.policy]
      forged == Forged(verdicts)
      q == Cardinality(Produced)
  IN  /\ DOMAIN verdicts = IF policy.probes THEN Tasks ELSE Produced
      /\ Cardinality(FailingSamples(policy, verdicts)) =
           IF Misprobed(policy, verdicts) THEN choose(q, policy.count)
           ELSE SamplesHitting(q, Cardinality(forged), policy.count)
      /\ row.status # "PASS" <=> row.selected \in FailingSamples(policy, verdicts)
      /\ row.slashed > 0 => Misprobed(policy, verdicts) \/ row.selected \cap forged # {}
      /\ row.fee > 0 => ~Misprobed(policy, verdicts) /\ row.selected \cap forged = {}

(* A report is settled once, under the policy whose tasks it answers,      *)
(* whatever calls are made; and over all the samples the owner's secret    *)
(* could have drawn, as many fail a report with wrong production answers   *)
(* as the published bound says, whatever it said on the rest.  Probes      *)
(* answered wrongly fail it under every sample, and a right report passes. *)
AuditExact ==
  /\ Len(settlements) <= 1
  /\ challenge = "committed" => settlements = <<>>
  /\ \A k \in DOMAIN settlements : ReceiptExact(settlements[k], assignment.verdicts)

(* Of an audit: neither the order of calls nor a second attempt gives the  *)
(* owner another sample, and as many samples fail a report as published.   *)
AuditBinds == [][AuditExact' /\ TranscriptBinds]_audit
===============================================================================
