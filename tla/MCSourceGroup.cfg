SPECIFICATION FairSpec
CONSTANTS
  s1 = s1  s2 = s2  s3 = s3  s4 = s4  s5 = s5  s6 = s6
  g1 = g1  g2 = g2  g3 = g3  g4 = g4
  Controls = 2
  Challenges = 2
  AuditSome = 1
  AuditAll = 2
  Priority <- MCPriority
  GoldOrder <- MCGoldOrder
  Plans <- MCPlans
INVARIANTS
  GroupPrepared
  DeliveriesOnDisk
  PaidForReplay
  RouteSound
  RaisesForCause
PROPERTIES
  Ends
CHECK_DEADLOCK FALSE
