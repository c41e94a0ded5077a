SPECIFICATION Spec
CONSTANTS
  Setups <- MCSetups
  Reserve = 1
  MaxOverhead = 2
  None = None
INVARIANT
  GuardFailsClosed
CHECK_DEADLOCK FALSE
