---------------------------- MODULE MCServiceStudy ----------------------------
(* Two datasets.  The first has a calibration unit with two identities and *)
(* a bridge unit whose recovery may leave its one reserve unactivated; the *)
(* second has a calibration unit and an owner-direct unit, which plans no  *)
(* assignment.                                                             *)
EXTENDS ServiceStudy

MCUnits == {"c1", "b1", "c2", "o2"}
MCAssignments == {"c1-v0", "c1-v1", "b1-v0", "c2-v0"}
MCDatasetOrder == <<"d1", "d2">>
MCUnitOrder == <<"c1", "b1", "c2", "o2">>
MCDatasetOf == [u \in MCUnits |-> IF u \in {"c1", "b1"} THEN "d1" ELSE "d2"]
MCBridge == {"b1"}
MCPlan == [u \in MCUnits |-> CASE u = "c1" -> {"c1-v0", "c1-v1"}
                              [] u = "b1" -> {"b1-v0"}
                              [] u = "c2" -> {"c2-v0"}
                              [] u = "o2" -> {}]
MCElective == {"b1"}
MCCalibrationUnit == [d \in {"d1", "d2"} |-> IF d = "d1" THEN "c1" ELSE "c2"]
===============================================================================
