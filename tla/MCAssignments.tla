---------------------------- MODULE MCAssignments ----------------------------
(* Small instances for TLC.  A behaviour prepares, reports and settles the *)
(* assignments of three verifiers; or builds, publishes and reads a bank   *)
(* of four microsegments; or audits a report on four production tasks and  *)
(* three probes.  The three share no state.                                *)
EXTENDS VerifierAssignments, ReplayBank, ProductionAudit

MCOrder == <<"p1", "s1", "s2", "p2", "s3">>

Expected(invalid) == [s \in Sources |-> IF s \in invalid THEN "fail" ELSE "pass"]
Flip(verdict) == IF verdict = "pass" THEN "fail" ELSE "pass"
Turned(f, S) == [s \in DOMAIN f |-> IF s \in S THEN Flip(f[s]) ELSE f[s]]
BlockOf(invalid, turned, returned, technical) ==
  [expected |-> Expected(invalid), replay |-> Turned(Expected(invalid), turned),
   rerun |-> [s \in Sentinels |-> Turned(Expected(invalid), returned)[s]],
   technical |-> technical]
MCBlocks ==
  {BlockOf(invalid, turned, returned, technical) :
     invalid \in {{"s1", "s2"}, {"p1", "s3", "s2"}}, turned \in {{}, {"s2"}, {"p2"}},
     returned \in {{}, {"s2"}, {"s1"}}, technical \in {{}}}
  \cup {BlockOf({"p1", "s3", "s2"}, {"p2"}, {}, {"p1"})}

MCMixes ==
  {[v \in Verifiers |-> CASE v = "v1" -> a [] v = "v2" -> b [] v = "v3" -> c] :
     a \in {"honest", "always-fail"}, b \in {"honest", "copy-peer", "dropout", "adaptive_recognizer"},
     c \in {"copy-peer", "always-pass", "minority-collusion", "random-report", "partial-replay-50",
            "partial-replay-25", "collude_cover_trainer", "collude_withhold"}}

Policy(task, personalized, settlement, count, threshold, jaccard) ==
  [task |-> task, personalized |-> personalized, settlement |-> settlement, count |-> count,
   threshold |-> threshold, maximumJaccard |-> jaccard, auditRate |-> 50]
MCPolicies ==
  {Policy("hidden-sentinel-bundle", TRUE, "adjudication", 2, 1, 50),
   Policy("hidden-sentinel-bundle", TRUE, "adjudication", 2, 2, 40),
   Policy("hidden-sentinel-bundle", FALSE, "adjudication", 2, 1, 50),
   Policy("hidden-sentinel-bundle", TRUE, "adjudication", 1, 1, 0),
   Policy("hidden-sentinel-bundle", TRUE, "adjudication", 2, 1, 30),
   Policy("hidden-sentinel-bundle", FALSE, "adjudication", 4, 1, 0),
   Policy("majority-only", TRUE, "majority-match", 1, 1, 0),
   Policy("majority-only", FALSE, "majority-match", 1, 1, 0),
   Policy("hidden-audit-v1", FALSE, "critical-audit-v1", 1, 1, 0)}

-------------------------------------------------------------------------------
(* Audits                                                                  *)

AuditTasks == {"p1", "p2", "p3", "p4", "q1", "q2", "q3"}
AuditTruth == [t \in AuditTasks |-> IF t \in {"p1", "p2", "q1"} THEN "true" ELSE "false"]
AuditReported ==
  {answers \in [AuditTasks -> {"true", "false", "none"}] :
     /\ \A t \in {"p1", "p3", "q1"} : answers[t] # "none"
     /\ Cardinality({t \in AuditTasks : answers[t] = "none"}) <= 2}

-------------------------------------------------------------------------------
VARIABLE part
served == <<block, behavior, policy, bundles, reports, effort, settled, phase>>

(* The other parts leave a service, a bank and an audit as they were       *)
(* opened.                                                                 *)
NotServed ==
  /\ Init
  /\ block = CHOOSE b \in Blocks : TRUE
  /\ behavior = CHOOSE m \in Mixes : TRUE
  /\ policy = CHOOSE p \in Policies : TRUE
NotBanked == BankInit /\ unstable = {}

MCInit ==
  \/ part = "assignments" /\ Init /\ NotBanked /\ AuditInit
  \/ part = "bank" /\ BankInit /\ NotServed /\ AuditInit
  \/ part = "audit" /\ AuditInit /\ NotServed /\ NotBanked
MCNext ==
  \/ part = "assignments" /\ Next /\ UNCHANGED <<part, bank, audit>>
  \/ part = "bank" /\ BankNext /\ UNCHANGED <<part, served, audit>>
  \/ part = "audit" /\ AuditNext /\ UNCHANGED <<part, served, bank>>
MCSpec == MCInit /\ [][MCNext]_<<part, served, bank, audit>>
===============================================================================
