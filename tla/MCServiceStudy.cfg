CONSTANTS
  Units <- MCUnits
  Assignments <- MCAssignments
  DatasetOrder <- MCDatasetOrder
  UnitOrder <- MCUnitOrder
  DatasetOf <- MCDatasetOf
  Bridge <- MCBridge
  Plan <- MCPlan
  Elective <- MCElective
  CalibrationUnit <- MCCalibrationUnit
  MaxStops = 2
SPECIFICATION Spec
INVARIANTS
  NothingRaises
  NoServiceAfterDisclosure
  EffectiveLogComplete
  CalibratedOnceAfterDisclosure
  RefusedForCause
PROPERTY RunEnds
CHECK_DEADLOCK FALSE
