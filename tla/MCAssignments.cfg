CONSTANTS
  Verifiers = {"v1", "v2", "v3"}
  Jobs = {"j1"}
  Production = {"p1", "p2"}
  Sentinels = {"s1", "s2", "s3"}
  PublicOrder <- MCOrder
  Blocks <- MCBlocks
  Mixes <- MCMixes
  Policies <- MCPolicies
  Fee = 4
  Bond = 3
  Reserve = 1
  Positions = {1, 2, 3, 4}
  ProductionCount = 2
  MajorityCount = 2
  MostUnstable = 1
  MostHits = 1
  Produced = {"p1", "p2", "p3", "p4"}
  Probes = {"q1", "q2", "q3"}
  Truth <- AuditTruth
  FewAudited = 2
  ProbeThreshold = 2
  AuditFee = 5
  AuditBond = 2
  Reported <- AuditReported
  Values = {"a", "b"}
  MaxCalls = 11
SPECIFICATION MCSpec
INVARIANTS
  BundlesDiffer
  SettlementJust
  BankFaithful
PROPERTIES
  AuditBinds
CHECK_DEADLOCK FALSE
