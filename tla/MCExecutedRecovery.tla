-------------------------- MODULE MCExecutedRecovery --------------------------
(* Calls of execute_recovery on a small roster, for TLC.                   *)
EXTENDS ExecutedRecovery

MCSuccess ==
  [n \in 0..9 |->
     IF n = 0 THEN 0
     ELSE <<900000000, 810000000, 972000000, 947700000, 991440000, 984150000, 997272000,
            994975650, 999109080>>[n]]

MCPrimary == [j \in Jobs |-> IF j = 1 THEN <<1, 2>> ELSE <<3, 4>>]

Yes == [s \in Segments |-> "true"]
MCReports == {Yes, [Yes EXCEPT !["s2"] = "false"], [Yes EXCEPT !["s2"] = "none"]}

Setup(policy, minimum, lanes, conflicts, missing, cap) ==
  [policy |-> policy, minimumPassCount |-> minimum, lanes |-> lanes, preDefer |-> FALSE,
   primary |-> MCPrimary, conflicts |-> conflicts, missing |-> missing,
   prepaid |-> 1, reserve |-> 2, cap |-> cap]

Ample == 20
Absent(v) == {v} \X Jobs     (* an identity in conflict with both jobs     *)
MCSetups ==
  {Setup("joint-matching", 3, 1, {<<5, 2>>}, {1, 3}, Ample),
   Setup("joint-matching", 3, 2, {<<2, 1>>} \cup Absent(4) \cup Absent(7), {1}, Ample),
   Setup("joint-matching", 0, 1, Absent(7), {1, 3}, Ample),
   Setup("joint-matching", 3, 1, {}, {1, 3}, 7),
   Setup("fixed-order", 0, 2, {<<5, 2>>} \cup Absent(3), {2, 4}, Ample),
   Setup("no-recovery", 0, 1, {}, {1}, Ample),
   [Setup("joint-matching", 3, 1, {}, {}, Ample) EXCEPT !.preDefer = TRUE]}
===============================================================================
