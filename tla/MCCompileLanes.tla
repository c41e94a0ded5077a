--------------------------- MODULE MCCompileLanes ---------------------------
(* Jobs on which the lanes, the resident budget and the guard matter.        *)
EXTENDS CompileLanes

\* Task 2 carries a mutation.  The budget keeps two or three payloads of four;
\* the guard admits the bank and some of the payloads, depending on overhead.
Job(width, size, identity, diskDelivery, residentLimit, capacity) ==
  [width |-> width, size |-> size, challenges |-> {2}, identity |-> identity,
   diskDelivery |-> diskDelivery, residentLimit |-> residentLimit,
   capacity |-> capacity, bank |-> <<1>>, before |-> 1]

MCSetups ==
  { Job(1, <<1, 2, 1>>, FALSE, FALSE, 2, 7),      \* inline, guarded
    Job(1, <<2, 2>>, TRUE, TRUE, 0, 6),           \* one payload to write
    Job(2, <<2, 1, 2, 1>>, FALSE, FALSE, 3, None),
    Job(2, <<1, 1, 1, 1, 1>>, TRUE, TRUE, 0, None),
    Job(2, <<2, 2, 2>>, TRUE, FALSE, 1, None),  \* all resident
    Job(4, <<2, 1>>, FALSE, TRUE, 2, None),     \* fewer items than lanes
    Job(4, <<1, 1, 2, 1, 1>>, FALSE, FALSE, 2, None),
    Job(2, <<1, 2, 1>>, FALSE, FALSE, 1, 6) }     \* guarded, on lanes
=============================================================================
