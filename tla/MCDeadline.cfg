CONSTANTS
  Verifiers = {1, 2, 3, 4, 5, 6, 7}
  Jobs = {1, 2}
  Correctness = 9
  Success <- MCSuccess
  Quorum = 3
  Segments = {"s1", "s2"}
  Reports <- MCReports
  Setups <- MCSetups
SPECIFICATION FairSpec
INVARIANTS
  DecidedTraceInTime
