------------------------------ MODULE JobMethods ------------------------------
(***************************************************************************)
(* The paid replay methods: what a job of each method delivers, what a     *)
(* verifier of each behaviour answers, how the owner settles the report    *)
(* and what the job's reports together decide.                             *)
(*                                                                         *)
(* A task is named by the source it was compiled from; in one job a source *)
(* has one role.  A replay's outcome is a function of the source: replays  *)
(* are deterministic within the tolerance of verify_replay_proof.          *)
(***************************************************************************)
EXTENDS Naturals, Sequences, FiniteSets

CONSTANTS
  Controls,    (* probes delivered as they are: 4                          *)
  Challenges,  (* probes delivered mutated: 4                              *)
  AuditSome,   (* the audit count of the -8- methods                       *)
  AuditAll     (* the audit count of the -all- methods: 32                 *)

ASSUME ProbesAssumption ==
  Controls \in Nat /\ Challenges \in Nat /\ Controls >= 2 /\ Challenges >= 2
ASSUME AuditAssumption ==
  AuditSome \in Nat \ {0} /\ AuditAll \in Nat \ {0} /\ AuditSome <= AuditAll

NumProbes == Controls + Challenges

(* METHODS.  The variants that differ in how a challenge is mutated,       *)
(* wrapped, validated or padded only are one method here.                  *)
Base == [probes |-> "none", audit |-> 0, direct |-> FALSE, opaque |-> FALSE,
         threshold |-> 2, complete |-> FALSE]
MethodKeys ==
  {"rcmp-probe-source", "hidden-gold-paid", "rcmp-audit-8", "rcmp-audit-all",
   "production-audit-8", "production-audit-all", "owner-direct", "plain-delegation",
   "rcmp-opaque", "rcmp-opaque-complete", "hidden-gold-complete"}
MethodOf(key) ==
  CASE key = "rcmp-probe-source"    -> [Base EXCEPT !.probes = "source"]
    [] key = "hidden-gold-paid"     -> [Base EXCEPT !.probes = "gold"]
    [] key = "rcmp-audit-8"         -> [Base EXCEPT !.probes = "source", !.audit = AuditSome]
    [] key = "rcmp-audit-all"       -> [Base EXCEPT !.probes = "source", !.audit = AuditAll]
    [] key = "production-audit-8"   -> [Base EXCEPT !.audit = AuditSome]
    [] key = "production-audit-all" -> [Base EXCEPT !.audit = AuditAll]
    [] key = "owner-direct"         -> [Base EXCEPT !.audit = AuditAll, !.direct = TRUE]
    [] key = "plain-delegation"     -> Base
    [] key = "rcmp-opaque"          -> [Base EXCEPT !.probes = "source", !.opaque = TRUE,
                                                    !.threshold = 1]
    [] key = "rcmp-opaque-complete" -> [Base EXCEPT !.probes = "source", !.opaque = TRUE,
                                                    !.threshold = 1, !.complete = TRUE]
    [] key = "hidden-gold-complete" -> [Base EXCEPT !.probes = "gold", !.opaque = TRUE,
                                                    !.threshold = 1, !.complete = TRUE]

-------------------------------------------------------------------------------
(* Delivery.  The probes are the selected sources in order of selection:   *)
(* the first ones controls, the others challenges.                         *)

Chosen(selected)    == {selected[i] : i \in DOMAIN selected}
Challenged(selected) == {selected[i] : i \in {k \in DOMAIN selected : k > Controls}}

(* What a full replay of the delivered task says, and the answer the owner *)
(* keeps for a probe.  A challenge is compiled only if its replay fails.   *)
Outcome(s, passes, selected) == s \notin Challenged(selected) /\ s \in passes
ProbeAnswer(s, selected)     == s \notin Challenged(selected)

-------------------------------------------------------------------------------
(* Verifiers.  `partial' replays the tasks of its hunch and accepts the    *)
(* others (partial-50, -90, uniform-k, cheap-recognizer); `shortcut'       *)
(* accepts what a public test accepts, its hunch; `false-reject' has one   *)
(* task it will reject.  The joint behaviours know which of the trainer's  *)
(* own sources are good and replay what they do not recognize.             *)

Behaviors == {"honest", "constant-accept", "constant-reject", "partial", "shortcut",
              "joint-targeted-cover", "joint-cached-correct", "joint-targeted-false-reject"}

(* The commitment the task shows and the hash of the canonical proof must  *)
(* both be the trainer's: an opaque handle is not, a mutated proof is not. *)
RecognizedByProof(s, method, own, selected) ==
  s \in own /\ s \notin Challenged(selected)
Recognized(s, method, own, selected) ==
  ~method.opaque /\ s \in own /\ s \notin Challenged(selected)

Hunches(behavior, method, tasks, own, passes) ==
  CASE behavior \in {"partial", "shortcut"} -> SUBSET tasks
    [] behavior = "joint-targeted-false-reject" ->
         LET candidates == IF method.opaque THEN {} ELSE tasks \cap own \cap passes
         IN  IF candidates = {} THEN {{}} ELSE {{s} : s \in candidates}
    [] OTHER -> {{}}

Cached(behavior, s, hunch, passes) ==
  CASE behavior = "joint-targeted-cover"        -> TRUE
    [] behavior = "joint-cached-correct"        -> s \in passes
    [] behavior = "joint-targeted-false-reject" -> s \in passes \ hunch

Verdict(behavior, s, hunch, method, own, passes, selected) ==
  CASE behavior = "honest"          -> Outcome(s, passes, selected)
    [] behavior = "constant-accept" -> TRUE
    [] behavior = "constant-reject" -> FALSE
    [] behavior = "partial"         -> s \in hunch => Outcome(s, passes, selected)
    [] behavior = "shortcut"        -> s \in hunch
    [] OTHER -> IF Recognized(s, method, own, selected)
                THEN Cached(behavior, s, hunch, passes)
                ELSE Outcome(s, passes, selected)

-------------------------------------------------------------------------------
(* Settlement.  The probes alone decide first; a report that passes them,  *)
(* or of a method without probes, must agree with every audited reference. *)

ProbeMismatches(verdicts, selected) ==
  {s \in Chosen(selected) : verdicts[s] # ProbeAnswer(s, selected)}
AuditMismatches(verdicts, drawn, passes) ==
  {s \in drawn : verdicts[s] # (s \in passes)}

StatusByAuditOnly(verdicts, drawn, method, passes, selected) ==
  IF IF drawn # {} THEN AuditMismatches(verdicts, drawn, passes) # {}
     ELSE Cardinality(ProbeMismatches(verdicts, selected)) >= method.threshold
  THEN "FAIL_CONFIRMED" ELSE "PASS"
Status(verdicts, drawn, method, passes, selected) ==
  IF \/ Cardinality(ProbeMismatches(verdicts, selected)) >= method.threshold
     \/ AuditMismatches(verdicts, drawn, passes) # {}
  THEN "FAIL_CONFIRMED" ELSE "PASS"

(* required_segment_decision over the reports that passed.                 *)
Quorum == 3
Accepting(s, eligible, reports) == {r \in eligible : reports[r].verdicts[s]}
Accepts(s, eligible, reports) ==
  2 * Cardinality(Accepting(s, eligible, reports)) > Cardinality(eligible)
Eligible(reports) == {r \in DOMAIN reports : reports[r].status = "PASS"}
Decision(production, reports) ==
  LET eligible == Eligible(reports)
  IN  IF production = {} \/ Cardinality(eligible) < Quorum THEN "safe-defer"
      ELSE IF \A s \in production : Accepts(s, eligible, reports) THEN "accept" ELSE "reject"
===============================================================================
