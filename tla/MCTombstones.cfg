CONSTANTS
  a1 = a1
  a2 = a2
  a3 = a3
  a4 = a4
  a5 = a5
  CalibrationAssignments <- MCAssignments
  Blocks = {1, 2, 3, 4, 5}
  Budget = 47
  FeePosted = 10
  OwnerReserve = 2
  CalibrationSettlements <- MCSettlements
  OwnerCosts = {2, 3}
  Unit = 10
  Alpha = 2
  MinimumCorrectness = 6
  MinimumAvailability = 4
  StationaryBlocks = TRUE
  MostTrials = 8
  Intervals = {1, 2}
  Checkpoints = {0, 1, 2, 3, 4}
  Replay <- MCReplay
  Submissions <- MCSubmissions
  Errors = {0, 1}
  EpsilonFloor = 1
  EpsilonMultiplier = 1
  Hashes <- MCHashes
  Scratches = {"s1", "s2"}
  Folders = {"j1", "j2"}
  Files = {"x1", "x2", "x3", "x4", "x5"}
  Home <- MCHome
  Parent <- MCParent
  Rank <- MCRank
  LinkChoices <- MCLinkChoices
SYMMETRY MCSymmetry
SPECIFICATION MCSpec
INVARIANTS
  TombstonesTolerated
CHECK_DEADLOCK FALSE
