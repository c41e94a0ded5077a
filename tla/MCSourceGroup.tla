---------------------------- MODULE MCSourceGroup ----------------------------
(* Six sources, two controls and two challenges, so two production targets. *)
EXTENDS SourceGroup

CONSTANTS s1, s2, s3, s4, s5, s6, g1, g2, g3, g4

MCPriority  == <<s1, s2, s3, s4, s5, s6>>
MCGoldOrder == <<g1, g2, g3, g4>>

A(m, b, n) == [method |-> m, behavior |-> b, verifiers |-> n, functional |-> TRUE]
B(m, b, n) == [method |-> m, behavior |-> b, verifiers |-> n, functional |-> FALSE]
G(us, reuse, early) == [units |-> us, reuse |-> reuse, releaseEarly |-> early]

MCPlans ==
  { (* comparators first: a fixture makes the targets *)
    G(<<A("production-audit-8", "honest", 1), A("rcmp-audit-8", "honest", 1),
        A("production-audit-8", "constant-reject", 1)>>, TRUE, TRUE),
    G(<<A("hidden-gold-paid", "honest", 1), A("rcmp-audit-8", "joint-cached-correct", 3),
        A("hidden-gold-paid", "constant-accept", 1), A("rcmp-audit-8", "constant-reject", 1)>>,
      TRUE, FALSE),
    G(<<A("rcmp-audit-all", "joint-targeted-cover", 3),
        A("hidden-gold-paid", "joint-cached-correct", 1),
        A("rcmp-audit-all", "joint-targeted-false-reject", 3)>>, TRUE, TRUE),
    G(<<B("owner-direct", "honest", 1), B("rcmp-probe-source", "joint-targeted-false-reject", 3),
        B("owner-direct", "honest", 1)>>, TRUE, TRUE),
    G(<<A("owner-direct", "honest", 1), A("rcmp-probe-source", "constant-accept", 1),
        A("owner-direct", "honest", 1)>>, TRUE, FALSE),
    G(<<B("rcmp-opaque-complete", "joint-targeted-cover", 3),
        B("hidden-gold-complete", "constant-accept", 1),
        B("rcmp-opaque-complete", "honest", 3)>>, TRUE, TRUE),
    G(<<B("rcmp-opaque-complete", "joint-targeted-false-reject", 3),
        B("hidden-gold-complete", "honest", 3)>>, FALSE, FALSE),
    G(<<A("rcmp-opaque", "joint-cached-correct", 3), A("rcmp-opaque", "constant-reject", 1)>>,
      TRUE, FALSE),
    G(<<B("plain-delegation", "constant-accept", 3), A("rcmp-probe-source", "honest", 3)>>,
      FALSE, FALSE),
    G(<<A("production-audit-all", "partial", 3)>>, TRUE, TRUE),
    G(<<A("rcmp-audit-all", "shortcut", 3)>>, TRUE, TRUE),
    G(<<B("rcmp-opaque", "partial", 1)>>, FALSE, FALSE) }
===============================================================================
