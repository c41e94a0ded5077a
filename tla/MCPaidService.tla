------------------------------ MODULE MCPaidService ------------------------------
(* Small instances for TLC.  A behaviour calibrates verifiers out of a     *)
(* budget (four opportunities are paid for, a fifth is one unit too many;  *)
(* a fee is the most that may be charged or one unit more; at 6/10 and     *)
(* alpha 2/10 the first admissible calibration has four trials), exchanges *)
(* and arbitrates the reports on a group of two intervals, or releases the *)
(* scratch of two groups, the first with two delivery folders.  The three  *)
(* share no state.                                                         *)
EXTENDS PaidCalibration, NativeArbitration, ScratchCleanup, TLC

CONSTANTS a1, a2, a3, a4, a5

MCAssignments == {a1, a2, a3, a4, a5}
MCSymmetry == Permutations(MCAssignments)
MCSettlements ==
  {[status |-> "PASS", accepted |-> TRUE, fee |-> fee] : fee \in {11, 12}}
    \cup {[status |-> status, accepted |-> FALSE, fee |-> 0] :
            status \in {"FAIL_CONFIRMED", "TECHNICAL_FAILURE"}}

MCReplay == [i \in {1, 2} |-> IF i = 1 THEN 2 ELSE 3]
MCSubmissions ==
  [t: {<<2, 3>>, <<3, 3>>, <<2, 4>>, <<2, 0>>}, v: {<<2, 3>>, <<2, 2>>, <<0, 3>>, <<4, 3>>}]
(* One that tells near points apart and takes points three apart for the   *)
(* same, so that <<2, 0>> may have the digests of the replay; and one that *)
(* may take neighbours for the same.                                       *)
MCHashes == {[x \in 0..4 |-> x % 3], [x \in 0..4 |-> x \div 2]}

MCHome == [x1 |-> "s1", x2 |-> "j1", x3 |-> "j1", x4 |-> "j2", x5 |-> "s2"]

MCParent == [j1 |-> "s1", j2 |-> "s1"]
MCRank == [s1 |-> 1, j1 |-> 2, j2 |-> 3, s2 |-> 4]
MCLinkChoices == {{}, {"s2"}, {"j2"}}

VARIABLE part

(* The other parts leave the calibration ledger as it was opened, the      *)
(* exchange before anybody has moved, and the scratch disk empty.          *)
NotExchanged ==
  /\ ExchangeInit
  /\ <<submission, hash, measured>> =
       CHOOSE choice \in Submissions \X [Intervals -> Hashes] \X [Estimators -> Errors] : TRUE
NotScratched == ScratchInit /\ links = {}
MCInit ==
  /\ LedgerInit
  /\ \/ part = "calibration" /\ NotExchanged /\ NotScratched
     \/ part = "exchange" /\ ExchangeInit /\ NotScratched
     \/ part = "scratch" /\ ScratchInit /\ NotExchanged
MCNext ==
  \/ part = "calibration" /\ LedgerNext /\ UNCHANGED <<part, group, scratch>>
  \/ part = "exchange" /\ ExchangeNext /\ UNCHANGED <<part, ledger, scratch>>
  \/ part = "scratch" /\ ScratchNext /\ UNCHANGED <<part, ledger, group>>
MCSpec == MCInit /\ [][MCNext]_<<part, ledger, group, scratch>>
===============================================================================
