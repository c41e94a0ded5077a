CONSTANTS
  Members = {"m1", "m2", "m3", "m4", "m5", "m6"}
  TaskOrders <- MCTaskOrders
  MaximumSlots = 5
  Dropouts = {0, 1, 3}
  Contracts <- MCContracts
  ReserveBudgets = {0, 1}
  Capacities = {1, 2}
  FalseNegatives = {0, 1}
  Unit = 3
  SystemStates <- MCSystemStates
  TraceSeeds <- MCTraceSeeds
  SourceUnits <- MCSourceUnits
  Responsive = {1, 2, 3}
  BadStates <- MCBadStates
  ExpectedTraces = 2
  DepolSize = 3
  DepolMajority = 2
  RefinerSize = 4
  RefinerMajority = 3
  InitialSlots = 2
  VariantBudgets = {0, 1, 2}
  FullBudget = 2
  DrawnMaps <- MCDrawnMaps
  Origins <- MCOrigins
  BatchSequences <- MCBatchSequences
  Flaws <- MCFlaws
  Spots <- MCSpots
  Setups <- MCSetups
  Tolerance = 1
  Magnitude = 4
  Coarse = 64
SPECIFICATION MCSpec
INVARIANTS
  SimulationAccounted
  DirectSound
  ProbesSound
  StudiesJudged
