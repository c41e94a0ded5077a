SPECIFICATION FairSpec
CONSTANTS
  Setups <- MCSetups
  Reserve = 1
  MaxOverhead = 2
  None = None
INVARIANTS
  BudgetsHold
PROPERTIES
  KeepsContract
  Ends
CHECK_DEADLOCK FALSE
