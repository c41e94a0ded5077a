--------------------------- MODULE DisclosureEpoch ---------------------------
(***************************************************************************)
(* ProbeDisclosureEpoch of disclosure.py, the owner's publication boundary *)
(* for related service assignments, as a record and the operators of its   *)
(* methods.  A method that raises has a May... guard: where it is false    *)
(* the caller gets a ValueError and the record does not change.            *)
(***************************************************************************)

Settlements  == {"PASS", "FAIL_CONFIRMED", "DROPOUT", "TECHNICAL_FAILURE"}
EpochStates  == Settlements \cup {"PLANNED", "RUNNING", "NOT_ACTIVATED"}

NewEpoch(ids) ==
  [states |-> [i \in ids |-> "PLANNED"], closed |-> FALSE, published |-> FALSE]

Covers(e, ids) == ids \subseteq DOMAIN e.states /\ ~e.closed

MayBegin(e, i) ==
  /\ ~e.closed /\ ~e.published
  /\ i \in DOMAIN e.states /\ e.states[i] = "PLANNED"
Begun(e, i) == [e EXCEPT !.states[i] = "RUNNING"]

MayFinish(e, i, status) ==
  /\ i \in DOMAIN e.states /\ e.states[i] = "RUNNING"
  /\ status \in Settlements
Finished(e, i, status) == [e EXCEPT !.states[i] = status]

(* close, then release: a caller that closed may always release.          *)
MayClose(e) == \A i \in DOMAIN e.states : e.states[i] # "RUNNING"
Closed(e) ==
  [e EXCEPT !.closed = TRUE,
            !.states = [i \in DOMAIN e.states |->
                          IF e.states[i] = "PLANNED" THEN "NOT_ACTIVATED" ELSE e.states[i]]]

Released(e) == [e EXCEPT !.published = TRUE]
===============================================================================
