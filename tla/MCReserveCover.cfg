\* Every game on four identities and two jobs.
CONSTANTS
  Identities = {0, 1, 2, 3}
  Jobs = {0, 1}
  MaxNeed = 2
  MaxAllowance = 2
  Games <- MCGames
  MaxRounds = 4
  ExcessFailures = 1
SPECIFICATION FairSpec
INVARIANTS
  AssertionsHold
  OwedJobsRecertifiable
  GuaranteeHonoured
PROPERTIES
  PromisesKept
  Returns
