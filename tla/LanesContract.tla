---------------------------- MODULE LanesContract ----------------------------
(***************************************************************************)
(* What TaskLanes.map (core/task_lanes.py) promises its caller: the items  *)
(* are called in input order, never more than width ahead of the results   *)
(* taken; results are taken in input order; the call returns with all of   *)
(* them, or raises, and in neither case is an item still being worked on.  *)
(***************************************************************************)
EXTENDS Integers

VARIABLES
  count,      \* the number of items
  width,      \* the number of lanes
  called,     \* the items whose function has been called
  busy,       \* the called items whose function has not come to an end
  taken,      \* the number of results taken
  status      \* "open", "returned" or "raised"

call == <<count, width>>
vars == <<call, called, busy, taken, status>>

Init ==
  /\ count \in Nat /\ width \in Nat \ {0}
  /\ called = {} /\ busy = {} /\ taken = 0 /\ status = "open"

\* The next item in input order is called, within the bound on work in flight.
Call ==
  /\ status = "open"
  /\ \E i \in 1..count :
       /\ called = 1..(i - 1)
       /\ i <= taken + width
       /\ called' = called \cup {i}
       /\ busy' = busy \cup {i}
  /\ UNCHANGED <<call, taken, status>>

\* The function ends for one item.
End ==
  /\ status = "open"
  /\ \E i \in busy : busy' = busy \ {i}
  /\ UNCHANGED <<call, called, taken, status>>

\* The result of the next item in input order is taken.
Take ==
  /\ status = "open"
  /\ taken + 1 \in called \ busy
  /\ taken' = taken + 1
  /\ UNCHANGED <<call, called, busy, status>>

Return ==
  /\ status = "open" /\ taken = count /\ busy = {}
  /\ status' = "returned"
  /\ UNCHANGED <<call, called, busy, taken>>

\* The exception raised is that of the first item without a result.
Raise ==
  /\ status = "open" /\ taken + 1 \in called /\ busy = {}
  /\ status' = "raised"
  /\ UNCHANGED <<call, called, busy, taken>>

Next == Call \/ End \/ Take \/ Return \/ Raise

Spec == Init /\ [][Next]_vars
=============================================================================
